---- MODULE Spec2Model ----
(***************************************************************************)
(* A model of the LanceDB vector backend of pdf-rag-mcp-server             *)
(* (src/backend/app/vector_backends/lance_backend.py): the persisted table *)
(* and its rows, the backend handles (self.table), and the Backend         *)
(* Contract operations together with cold-start reconciliation.            *)
(*                                                                         *)
(* Modelling conventions                                                   *)
(*   - an optional Python value is a sequence: <<>> is None / an absent    *)
(*     key, <<v>> is the value v;                                          *)
(*   - the persisted table is a sequence of rows in insertion order;       *)
(*   - a chunk id is <<batch, index>>: batch 0 is live ingestion (the      *)
(*     caller's chunk ids), batch k >= 1 is the k-th "rebuild-<uuid>"      *)
(*     batch id drawn by reconciliation;                                   *)
(*   - the store's filter is the equality predicate of the filter mapping, *)
(*     applied before the nearest-neighbour limit.                         *)
(***************************************************************************)
EXTENDS Integers, Sequences, FiniteSets, TLC

VARIABLES
    tableExists,  \* the persisted table "pdf_documents" exists
    rows,         \* its rows, in insertion order
    table,        \* table[h]: self.table of backend handle h ("none" | "open")
    scheduled,    \* scheduled[h]: handle h has a reconciliation scheduled
    db,           \* the canonical document store read by reconciliation
    ask,          \* the arguments this behaviour calls with
    proc,         \* proc[p]: where concurrent writer p stands in its call
    race,         \* the reconciler's remaining documents; creations counted
    nextChunk,    \* next unused live chunk number
    nextBatch,    \* next unused reconciliation batch id
    files,        \* the archive files on disk: records [path, content]
    ret           \* the last operation and what it returned

vars == <<tableExists, rows, table, scheduled, db, ask, proc, race, nextChunk,
          nextBatch, files, ret>>

(***************************************************************************)
(* Bounds of the model.                                                    *)
(***************************************************************************)
MaxRows == 4     \* rows the table may hold
MaxChunk == 2    \* live chunks ever ingested
MaxBatch == 2    \* reconciliation batch ids ever drawn
MaxN == 2        \* chunks of one add_documents call
MaxResults == 3  \* largest n_results of a search
MaxOffset == 2   \* largest offset of a search

Handles == {1, 2}
PdfIds == {1, 2}
Vecs == {0, 1}

None == <<>>
Some(v) == <<v>>
IsNone(o) == o = <<>>

Min(a, b) == IF a < b THEN a ELSE b
Max(a, b) == IF a > b THEN a ELSE b
Abs(a) == IF a < 0 THEN 0 - a ELSE a

(***************************************************************************)
(* Caller-supplied document metadata (the three filterable keys of the     *)
(* metadata dictionary); a key may be absent.                              *)
(***************************************************************************)
BareProfile == [publication_year |-> None, authors |-> None, document_type |-> None]
PaperProfile == [publication_year |-> Some(2023), authors |-> Some(<<"Smith">>),
                 document_type |-> Some("paper")]
\* the metadata live ingestion attaches to the chunks of a document
ProfileOf(pdf_id) == IF pdf_id = 1 THEN PaperProfile ELSE BareProfile

\* json.dumps(meta) / json.loads(raw): the blob column holds the serialized
\* dictionary; a raw value that is not valid JSON loads as the empty object.
EmptyMeta == [pdf_id |-> None, chunk_id |-> None, publication_year |-> None,
              authors |-> None, document_type |-> None]
\* A key that is no schema column ("extra") holds a Python value [t, v]: its
\* type t ("str", "int", "list", "tuple") and its content v, the items it
\* holds written out (the int 7 and the string "7" differ in t).  JSON has
\* strings, numbers and arrays: json.dumps writes a list and a tuple as an
\* array, json.loads reads an array as a list.  The values of the named
\* keys are ints, strings and lists of strings, which JSON hands back as
\* they were.
ToJson(x) ==
    [x EXCEPT !.t = CASE @ = "str" -> "string"
                      [] @ = "int" -> "number"
                      [] @ \in {"list", "tuple"} -> "array"]
FromJson(j) ==
    [j EXCEPT !.t = CASE @ = "string" -> "str"
                      [] @ = "number" -> "int"
                      [] @ = "array" -> "list"]
Encoded(meta) ==
    IF "extra" \in DOMAIN meta THEN [meta EXCEPT !.extra = ToJson(@)] ELSE meta
Decoded(json) ==
    IF "extra" \in DOMAIN json THEN [json EXCEPT !.extra = FromJson(@)] ELSE json

\* a serializer that writes the named keys only
JsonDumpsNamedKeys(meta) ==
    [valid |-> TRUE, json |-> [k \in DOMAIN meta \ {"extra"} |-> meta[k]]]

JsonDumps(meta) == [valid |-> TRUE, json |-> Encoded(meta)]
\* a decoder that hands back whatever the text was meant to say
JsonLoadsTrusting(raw) == Decoded(raw.json)
JsonLoads(raw) == IF raw.valid THEN Decoded(raw.json) ELSE EmptyMeta

\* Python truthiness of an optional int / list / str.
TruthyInt(o) == ~IsNone(o) /\ o[1] # 0
TruthySeq(o) == ~IsNone(o) /\ o[1] # <<>>
TruthyStr(o) == ~IsNone(o) /\ o[1] # ""

(***************************************************************************)
(* _build_records: one typed row per (chunk, embedding, metadata).         *)
(***************************************************************************)
\* a conditional that lets the value through unguarded
CoalesceKeepingNone(o, use, sentinel) == o

\* `convert(x) if <use> else sentinel`: the optional value written to a
\* structured column
Coalesce(o, use, sentinel) == IF use THEN o ELSE Some(sentinel)

\* what a typed column holds for an optional value: the value, or the
\* column's zero where the value is null
Stored(o, zero) == IF IsNone(o) THEN zero ELSE o[1]

\* the structured columns that are null, given the values written to them
NullColumns(publication_year, authors, document_type) ==
    {k \in {"publication_year"} : IsNone(publication_year)}
    \cup {k \in {"authors"} : IsNone(authors)}
    \cup {k \in {"document_type"} : IsNone(document_type)}

BuildRecord(chunk, embedding, meta) ==
    LET publication_year ==
            Coalesce(meta.publication_year, TruthyInt(meta.publication_year), 0)
        authors == Coalesce(meta.authors, TruthySeq(meta.authors), <<>>)
        document_type ==
            Coalesce(meta.document_type, TruthyStr(meta.document_type), "")
    IN [ id |-> <<meta.pdf_id, meta.chunk_id>>,
         text |-> chunk,
         vector |-> embedding,
         pdf_id |-> IF TruthyInt(meta.pdf_id) THEN meta.pdf_id[1] ELSE 0,
         chunk_id |-> meta.chunk_id,
         metadata |-> JsonDumps(meta),
         publication_year |-> Stored(publication_year, 0),
         authors |-> Stored(authors, <<>>),
         document_type |-> Stored(document_type, ""),
         nulls |-> NullColumns(publication_year, authors, document_type) ]

\* zip(chunks, embeddings, metadatas): as many records as the shortest input.
BuildRecords(chunks, embeddings, metadatas) ==
    [ i \in 1..Min(Len(chunks), Min(Len(embeddings), Len(metadatas))) |->
        BuildRecord(chunks[i], embeddings[i], metadatas[i]) ]


\* metadatas = metadatas or [{} for _ in chunks]
MetadatasOrDefault(chunks, metadatas) ==
    IF IsNone(metadatas) \/ metadatas[1] = <<>>
    THEN [i \in 1..Len(chunks) |-> EmptyMeta]
    ELSE metadatas[1]

(***************************************************************************)
(* The store as one value: the persisted table and every handle on it.     *)
(* F is the set of store calls that raise during the operation modelled    *)
(* (empty in a fault-free run).  An operation XxxTry is the method with    *)
(* its exceptions left to escape: raised tells whether one did, failed is  *)
(* the set of store calls that raised on the way.  XxxOf is the method as  *)
(* written, its handler returning the sentinel.                            *)
(***************************************************************************)
StoreCalls == {"table_names", "open_table", "create_table",
               "table_names_again", "open_table_again", "add",
               "count_rows", "search", "delete", "drop_table"}

Store == [exists |-> tableExists, rows |-> rows, table |-> table]

\* _open_table: the table when it is listed and opens, None on any failure.
OpenTable(st, F) ==
    IF "table_names" \in F THEN "none"
    ELSE IF ~st.exists THEN "none"
    ELSE IF "open_table" \in F THEN "none"
    ELSE "open"

\* the store call that raised inside _open_table, if any
OpenFailed(st, F) ==
    IF "table_names" \in F THEN {"table_names"}
    ELSE IF st.exists /\ "open_table" \in F THEN {"open_table"}
    ELSE {}

GetDocumentCountTry(st, h, F) ==
    IF st.table[h] = "none" THEN [count |-> 0, raised |-> FALSE, failed |-> {}]
    ELSE IF "count_rows" \in F
         THEN [count |-> 0, raised |-> TRUE, failed |-> {"count_rows"}]
    ELSE [count |-> Len(st.rows), raised |-> FALSE, failed |-> {}]

\* get_document_count: [count, raised, failed]
GetDocumentCountRun(st, h, F) ==
    LET t == GetDocumentCountTry(st, h, F)
    IN IF t.raised THEN [t EXCEPT !.count = 0, !.raised = FALSE] ELSE t

\* get_document_count: 0 without a table handle or when count_rows raises.
GetDocumentCountOf(st, h, F) == GetDocumentCountRun(st, h, F).count

\* client.create_table(name, records, schema): creates the table holding
\* the records; raises "already exists" when the table is there.
CreateTable(st, h, records) ==
    [st EXCEPT !.exists = TRUE, !.rows = records, !.table[h] = "open"]

\* A fallback that does not treat "already exists" as success.
ReopenTableNever(st, F) == "none"

\* The _open_table call that follows an "already exists" error.
ReopenTable(st, F) ==
    IF "table_names_again" \in F THEN "none"
    ELSE IF ~st.exists THEN "none"
    ELSE IF "open_table_again" \in F THEN "none"
    ELSE "open"

ReopenFailed(st, F) ==
    IF "table_names_again" \in F THEN {"table_names_again"}
    ELSE IF st.exists /\ "open_table_again" \in F THEN {"open_table_again"}
    ELSE {}

\* _ensure_table: [st, raised, failed].
EnsureTable(st, h, records, F) ==
    IF st.table[h] # "none" THEN [st |-> st, raised |-> FALSE, failed |-> {}]
    ELSE IF records = <<>> THEN [st |-> st, raised |-> FALSE, failed |-> {}]
    ELSE IF OpenTable(st, F) = "open"
         THEN [st |-> [st EXCEPT !.table[h] = "open"], raised |-> FALSE, failed |-> {}]
    ELSE IF "create_table" \in F
         THEN [st |-> st, raised |-> TRUE,
               failed |-> OpenFailed(st, F) \cup {"create_table"}]
    ELSE IF st.exists
         THEN \* "already exists": self.table = self._open_table()
              IF ReopenTable(st, F) = "open"
              THEN [st |-> [st EXCEPT !.table[h] = "open"], raised |-> FALSE,
                    failed |-> OpenFailed(st, F)]
              ELSE [st |-> st, raised |-> TRUE,
                    failed |-> OpenFailed(st, F) \cup ReopenFailed(st, F)]
    ELSE [st |-> CreateTable(st, h, records), raised |-> FALSE,
          failed |-> OpenFailed(st, F)]

\* self.table.add(records)
TableAdd(st, records) == [st EXCEPT !.rows = st.rows \o records]

\* add_documents without its early return on an empty chunk list
AddDocumentsWithoutEmptyCheck(st, h, chunks, embeddings, metadatas, F) ==
    LET records == BuildRecords(chunks, embeddings,
                                MetadatasOrDefault(chunks, metadatas))
        e == EnsureTable(st, h, records, F)
    IN IF e.raised
       THEN [st |-> e.st, ok |-> FALSE, raised |-> TRUE, failed |-> e.failed]
       ELSE IF e.st.table[h] = "none"
       THEN [st |-> e.st, ok |-> FALSE, raised |-> FALSE, failed |-> e.failed]
       ELSE [st |-> TableAdd(e.st, records), ok |-> TRUE, raised |-> FALSE,
             failed |-> e.failed]

AddDocumentsTry(st, h, chunks, embeddings, metadatas, F) ==
    IF chunks = <<>> THEN [st |-> st, ok |-> TRUE, raised |-> FALSE, failed |-> {}]
    ELSE
      LET records == BuildRecords(chunks, embeddings,
                                  MetadatasOrDefault(chunks, metadatas))
          e == EnsureTable(st, h, records, F)
      IN IF e.raised
         THEN [st |-> e.st, ok |-> FALSE, raised |-> TRUE, failed |-> e.failed]
         ELSE IF e.st.table[h] = "none"
         THEN [st |-> e.st, ok |-> FALSE, raised |-> FALSE, failed |-> e.failed]
         ELSE IF "add" \in F
         THEN [st |-> e.st, ok |-> FALSE, raised |-> TRUE,
               failed |-> e.failed \cup {"add"}]
         ELSE [st |-> TableAdd(e.st, records), ok |-> TRUE, raised |-> FALSE,
               failed |-> e.failed]

\* add_documents without its handler
AddDocumentsUncaught(st, h, chunks, embeddings, metadatas, F) ==
    AddDocumentsTry(st, h, chunks, embeddings, metadatas, F)

\* add_documents: [st, ok, raised, failed].
AddDocumentsOf(st, h, chunks, embeddings, metadatas, F) ==
    LET t == AddDocumentsTry(st, h, chunks, embeddings, metadatas, F)
    IN IF t.raised THEN [t EXCEPT !.ok = FALSE, !.raised = FALSE] ELSE t


(***************************************************************************)
(* Filters: a mapping column -> value over the filterable columns; an      *)
(* absent key is None.  NoFilter is both None and the empty mapping.       *)
(***************************************************************************)
NoFilter == [pdf_id |-> None, publication_year |-> None, document_type |-> None]

FilterIsEmpty(f) ==
    IsNone(f.pdf_id) /\ IsNone(f.publication_year) /\ IsNone(f.document_type)

\* The equality predicate of a filter, on one row.
Matches(row, f) ==
    /\ IsNone(f.pdf_id) \/ row.pdf_id = f.pdf_id[1]
    /\ IsNone(f.publication_year) \/ row.publication_year = f.publication_year[1]
    /\ IsNone(f.document_type) \/ row.document_type = f.document_type[1]

RECURSIVE SelectRows(_, _)
\* the rows of a sequence that satisfy a predicate given as a set of rows
SelectRows(rs, keep) ==
    IF rs = <<>> THEN <<>>
    ELSE IF Head(rs) \in keep THEN <<Head(rs)>> \o SelectRows(Tail(rs), keep)
    ELSE SelectRows(Tail(rs), keep)

RowSet(rs) == {rs[i] : i \in 1..Len(rs)}
Matching(rs, f) == SelectRows(rs, {r \in RowSet(rs) : Matches(r, f)})
NotMatching(rs, f) == SelectRows(rs, {r \in RowSet(rs) : ~Matches(r, f)})

\* a delete that removes nothing
TableDeleteNothing(st, f) == st

\* self.table.delete(where=expr)
TableDelete(st, f) == [st EXCEPT !.rows = NotMatching(st.rows, f)]
TableDeleteIds(st, ids) ==
    [st EXCEPT !.rows = SelectRows(st.rows, {r \in RowSet(st.rows) : r.id \notin ids})]

DeleteTry(st, h, f, ids, F) ==
    LET Raise == [st |-> st, ok |-> FALSE, raised |-> TRUE, failed |-> {"delete"}]
        Done(st1, ok) == [st |-> st1, ok |-> ok, raised |-> FALSE, failed |-> {}]
    IN IF st.table[h] = "none" THEN Done(st, TRUE)
       ELSE IF ~FilterIsEmpty(f)
            THEN IF "delete" \in F THEN Raise ELSE Done(TableDelete(st, f), TRUE)
       ELSE IF ids # {}
            THEN IF "delete" \in F THEN Raise ELSE Done(TableDeleteIds(st, ids), TRUE)
       ELSE Done(st, FALSE)

\* delete(filter, ids): [st, ok, raised, failed].
DeleteOf(st, h, f, ids, F) ==
    LET t == DeleteTry(st, h, f, ids, F)
    IN IF t.raised THEN [t EXCEPT !.ok = FALSE, !.raised = FALSE] ELSE t

\* a reset that keeps the handle of the table it dropped
ResetKeepingHandle(st, h, F) ==
    IF "table_names" \in F \/ (st.exists /\ "drop_table" \in F)
    THEN [st |-> st, ok |-> FALSE, scheduled |-> FALSE, raised |-> TRUE,
          failed |-> IF "table_names" \in F THEN {"table_names"} ELSE {"drop_table"}]
    ELSE [st |-> [st EXCEPT !.exists = FALSE, !.rows = <<>>],
          ok |-> TRUE, scheduled |-> TRUE, raised |-> FALSE, failed |-> {}]

ResetTry(st, h, F) ==
    IF "table_names" \in F
    THEN [st |-> st, ok |-> FALSE, scheduled |-> FALSE, raised |-> TRUE,
          failed |-> {"table_names"}]
    ELSE IF st.exists /\ "drop_table" \in F
         THEN [st |-> st, ok |-> FALSE, scheduled |-> FALSE, raised |-> TRUE,
               failed |-> {"drop_table"}]
    ELSE [st |-> [st EXCEPT !.exists = FALSE, !.rows = <<>>, !.table[h] = "none"],
          ok |-> TRUE, scheduled |-> TRUE, raised |-> FALSE, failed |-> {}]

\* reset: [st, ok, scheduled, raised, failed]; the table is dropped when it
\* is listed.
ResetOf(st, h, F) ==
    LET t == ResetTry(st, h, F)
    IN IF t.raised THEN [t EXCEPT !.ok = FALSE, !.raised = FALSE] ELSE t

(***************************************************************************)
(* update_document_metadata: read the document's rows, rebuild them with   *)
(* the three metadata columns overwritten, delete, re-add.                 *)
(***************************************************************************)
UpdateFetchLimit == 100000

PdfFilter(pdf_id) == [NoFilter EXCEPT !.pdf_id = Some(pdf_id)]

\* the chunk rows a table entry stands for: one, or, for a run of
\* consecutive chunks of one document kept as one entry, its field copies
RowCopies(r) == IF "copies" \in DOMAIN r THEN r.copies ELSE 1

RECURSIVE TakeRows(_, _)
\* .limit(k): the first k rows
TakeRows(rs, k) ==
    IF rs = <<>> \/ k <= 0 THEN <<>>
    ELSE IF RowCopies(Head(rs)) <= k
         THEN <<Head(rs)>> \o TakeRows(Tail(rs), k - RowCopies(Head(rs)))
    ELSE <<[Head(rs) EXCEPT !.copies = k]>>

\* a rebuild of the row that forgets the document_type column
UpdatedRecordKeepingType(row, publication_year, authors, document_type) ==
    [row EXCEPT
       !.publication_year = IF IsNone(publication_year) THEN 0 ELSE publication_year[1],
       !.authors = IF IsNone(authors) THEN <<>> ELSE authors[1]]

\* a rebuild of the row that merges: a column the caller left unspecified
\* keeps its value
UpdatedRecordMerging(row, publication_year, authors, document_type) ==
    [row EXCEPT
       !.publication_year = IF IsNone(publication_year) THEN @ ELSE publication_year[1],
       !.authors = IF IsNone(authors) THEN @ ELSE authors[1],
       !.document_type = IF IsNone(document_type) THEN @ ELSE document_type[1]]

UpdatedRecord(row, publication_year, authors, document_type) ==
    LET year == Coalesce(publication_year, ~IsNone(publication_year), 0)
        names == Coalesce(authors, ~IsNone(authors), <<>>)
        type == Coalesce(document_type, ~IsNone(document_type), "")
    IN [row EXCEPT
          !.publication_year = Stored(year, 0),
          !.authors = Stored(names, <<>>),
          !.document_type = Stored(type, ""),
          !.nulls = NullColumns(year, names, type)]

UpdateDocumentMetadataTry(st, h, pdf_id, publication_year, authors, document_type, F) ==
    LET st1 == IF st.table[h] = "none"
               THEN [st EXCEPT !.table[h] = OpenTable(st, F)] ELSE st
        opening == IF st.table[h] = "none" THEN OpenFailed(st, F) ELSE {}
        found == Matching(st1.rows, PdfFilter(pdf_id))
        df == TakeRows(found, UpdateFetchLimit)
        updated_records ==
            [i \in 1..Len(df) |->
                UpdatedRecord(df[i], publication_year, authors, document_type)]
        st2 == TableDelete(st1, PdfFilter(pdf_id))
        Raise(stx, call) == [st |-> stx, ok |-> FALSE, raised |-> TRUE,
                             failed |-> opening \cup {call}]
        Done(stx, ok) == [st |-> stx, ok |-> ok, raised |-> FALSE, failed |-> opening]
    IN IF st1.table[h] = "none" THEN Done(st1, FALSE)
       ELSE IF "search" \in F THEN Raise(st1, "search")
       ELSE IF df = <<>> THEN Done(st1, TRUE)
       ELSE IF "delete" \in F THEN Raise(st1, "delete")
       ELSE IF "add" \in F THEN Raise(st2, "add")
       ELSE Done(TableAdd(st2, updated_records), TRUE)

\* update_document_metadata: [st, ok, raised, failed].
UpdateDocumentMetadataOf(st, h, pdf_id, publication_year, authors, document_type, F) ==
    LET t == UpdateDocumentMetadataTry(st, h, pdf_id, publication_year, authors,
                                       document_type, F)
    IN IF t.raised THEN [t EXCEPT !.ok = FALSE, !.raised = FALSE] ELSE t


(***************************************************************************)
(* search: nearest-neighbour retrieval limited to fetch_total, relevance   *)
(* normalisation, and the pagination window.                               *)
(***************************************************************************)
One == 2
Queries == {0, 1, 3}

\* the store's distance between a row's vector and the query vector
Distance(vector, query) == Abs(vector - query)

RECURSIVE InsertByDistance(_, _, _)
InsertByDistance(row, sorted, query) ==
    IF sorted = <<>> THEN <<row>>
    ELSE IF Distance(row.vector, query) < Distance(Head(sorted).vector, query)
         THEN <<row>> \o sorted
    ELSE <<Head(sorted)>> \o InsertByDistance(row, Tail(sorted), query)

RECURSIVE NearestFirst(_, _)
\* the store's nearest-neighbour ordering (ties keep insertion order)
NearestFirst(rs, query) ==
    IF rs = <<>> THEN <<>>
    ELSE InsertByDistance(rs[Len(rs)], NearestFirst(SubSeq(rs, 1, Len(rs) - 1), query), query)

\* table.search(q).where(filter).limit(k).to_pandas()
TableSearch(st, query, f, k) ==
    LET ordered == NearestFirst(IF FilterIsEmpty(f) THEN st.rows ELSE Matching(st.rows, f),
                                query)
    IN SubSeq(ordered, 1, Min(k, Len(ordered)))

\* Python's seq[a : b] for 0 <= a <= b
Slice(seq, a, b) == SubSeq(seq, a + 1, Min(b, Len(seq)))

\* a normalisation that lets every value through
ClampNothing(x) == x

Clamp01(x) == Max(0, Min(One, x))

EmptyShape == [documents |-> <<>>, metadatas |-> <<>>, distances |-> <<>>]

\* a fetch that asks for the window only, without the probe row
FetchTotalWithoutProbe(requested, offset_val) == requested + offset_val

\* a fetch that forgets the rows skipped by the offset
FetchTotalWithoutOffset(requested, offset_val) == requested + 1

\* fetch_total: the window, the rows before it, and one probe row
FetchTotal(requested, offset_val) ==
    IF requested + offset_val + 1 <= 0 THEN 1 ELSE requested + offset_val + 1

\* supplies: the relevance columns the store's result frame carries, a
\* subset of {"score", "distance"}; its native score is 1 - distance.
SearchResult(st, query, n_results, f, offset, supplies) ==
    LET requested == Max(n_results, 0)
        offset_val == Max(offset, 0)
        fetch_total == FetchTotal(requested, offset_val)
        df == TableSearch(st, query, f, fetch_total)
        documents == [i \in 1..Len(df) |-> df[i].text]
        metadatas == [i \in 1..Len(df) |-> JsonLoads(df[i].metadata)]
        native_distance == [i \in 1..Len(df) |-> Distance(df[i].vector, query)]
        native_score == [i \in 1..Len(df) |-> One - native_distance[i]]
        scores_all ==
            IF "score" \in supplies
            THEN [i \in 1..Len(df) |-> Clamp01(native_score[i])]
            ELSE IF "distance" \in supplies
            THEN [i \in 1..Len(df) |-> Clamp01(One - native_distance[i])]
            ELSE [i \in 1..Len(df) |-> 0]
        distances_all ==
            IF "distance" \in supplies
            THEN [i \in 1..Len(df) |-> Max(0, native_distance[i])]
            ELSE [i \in 1..Len(df) |-> Max(0, One - scores_all[i])]
        Window(seq) == IF requested > 0
                       THEN Slice(seq, offset_val, offset_val + requested) ELSE <<>>
    IN IF df = <<>> THEN EmptyShape
       ELSE [documents |-> Window(documents),
             metadatas |-> Window(metadatas),
             distances |-> Window(distances_all),
             scores |-> Window(scores_all),
             has_more |-> Len(documents) > offset_val + requested,
             offset |-> offset_val,
             limit |-> requested,
             total_fetched |-> Len(documents)]

SearchTry(st, h, query, n_results, f, offset, supplies, F) ==
    LET st1 == IF st.table[h] = "none"
               THEN [st EXCEPT !.table[h] = OpenTable(st, F)] ELSE st
        opening == IF st.table[h] = "none" THEN OpenFailed(st, F) ELSE {}
        c == GetDocumentCountRun(st1, h, F)
    IN IF st1.table[h] = "none"
       THEN [st |-> st1, result |-> EmptyShape, raised |-> FALSE, failed |-> opening]
       ELSE IF c.count = 0
       THEN [st |-> st1, result |-> EmptyShape, raised |-> FALSE,
             failed |-> opening \cup c.failed]
       ELSE IF "search" \in F
       THEN [st |-> st1, result |-> EmptyShape, raised |-> TRUE,
             failed |-> opening \cup {"search"}]
       ELSE [st |-> st1,
             result |-> SearchResult(st1, query, n_results, f, offset, supplies),
             raised |-> FALSE, failed |-> opening]

\* search: [st, result, raised, failed]; the handle opens a table created
\* after __init__.
SearchOf(st, h, query, n_results, f, offset, supplies, F) ==
    LET t == SearchTry(st, h, query, n_results, f, offset, supplies, F)
    IN IF t.raised THEN [t EXCEPT !.result = EmptyShape, !.raised = FALSE] ELSE t


(***************************************************************************)
(* The canonical document store and rebuild_from_markdown.  A document's   *)
(* pages are the numbers of chunks the splitter cuts each page into (0 for *)
(* a page of whitespace only).                                             *)
(***************************************************************************)
RECURSIVE SumSeq(_)
SumSeq(seq) == IF seq = <<>> THEN 0 ELSE Head(seq) + SumSeq(Tail(seq))

\* model.encode(chunks): the embedding of a chunk text
Embed(chunk) == chunk[2] % 2

\* markdown_is_current(doc): no page was updated after the last processing
MarkdownIsCurrent(doc) == doc.current

\* the chunks and metadatas reconciliation builds for one document
RebuildChunks(doc, batch_id) ==
    [i \in 1..SumSeq(doc.pages) |-> <<batch_id, i - 1>>]

\* metadatas that carry the positional keys only
RebuildMetadatasWithoutFields(pdf_id, doc, batch_id) ==
    [i \in 1..SumSeq(doc.pages) |->
        [pdf_id |-> Some(pdf_id),
         chunk_id |-> Some(<<batch_id, i - 1>>),
         publication_year |-> None, authors |-> None, document_type |-> None]]

RebuildMetadatas(pdf_id, doc, batch_id) ==
    [i \in 1..SumSeq(doc.pages) |->
        [pdf_id |-> Some(pdf_id),
         chunk_id |-> Some(<<batch_id, i - 1>>),
         publication_year |->
             Some(IF TruthyInt(doc.publication_year) THEN doc.publication_year[1] ELSE 0),
         authors |-> Some(IF TruthySeq(doc.authors) THEN doc.authors[1] ELSE <<>>),
         document_type |->
             Some(IF TruthyStr(doc.document_type) THEN doc.document_type[1] ELSE "")]]

\* The failures of one reconciliation pass: the documents whose embedding
\* raises and those whose insertion the store refuses.
NoFailures == [encode |-> {}, insert |-> {}]
InsertCalls == {"create_table", "add"}

RECURSIVE RebuildDocs(_, _, _, _, _, _)
\* the loop over processed_docs (ids ascending): [st, batch, rebuilt_any, raised].
RebuildDocs(st, h, dbv, ids, batch, encodeFails) ==
    IF ids = <<>> THEN [st |-> st, batch |-> batch, rebuilt_any |-> FALSE, raised |-> FALSE]
    ELSE
      LET d == Head(ids)
          doc == dbv[d]
          chunks == RebuildChunks(doc, batch)
          added == AddDocumentsOf(st, h, chunks, [i \in 1..Len(chunks) |-> Embed(chunks[i])],
                                  Some(RebuildMetadatas(d, doc, batch)),
                                  IF d \in encodeFails.insert THEN InsertCalls ELSE {})
      IN IF doc.blacklisted \/ ~MarkdownIsCurrent(doc) \/ doc.pages = <<>>
         THEN RebuildDocs(st, h, dbv, Tail(ids), batch, encodeFails)
         ELSE IF chunks = <<>>
         THEN RebuildDocs(st, h, dbv, Tail(ids), batch + 1, encodeFails)
         ELSE IF d \in encodeFails.encode
         THEN [st |-> st, batch |-> batch + 1, rebuilt_any |-> FALSE, raised |-> TRUE]
         ELSE LET rest == RebuildDocs(added.st, h, dbv, Tail(ids), batch + 1, encodeFails)
              IN [rest EXCEPT !.rebuilt_any = added.ok \/ rest.rebuilt_any]

RECURSIVE Ascending(_)
\* the elements of a finite set of integers in ascending order
Ascending(S) ==
    IF S = {} THEN <<>>
    ELSE LET m == CHOOSE x \in S : \A y \in S : x <= y
         IN <<m>> \o Ascending(S \ {m})

\* a scan that does not filter on processed
EveryDoc(dbv) == Ascending(DOMAIN dbv)

ProcessedDocs(dbv) == Ascending({d \in DOMAIN dbv : dbv[d].processed})

\* reconciliation without its check of the row count
RebuildUnguarded(st, h, dbv, batch, encodeFails) ==
    RebuildDocs(st, h, dbv, ProcessedDocs(dbv), batch, encodeFails)

\* rebuild_from_markdown: [st, batch, rebuilt_any, raised]
RebuildFromMarkdownOf(st, h, dbv, batch, encodeFails) ==
    IF GetDocumentCountOf(st, h, {}) > 0
    THEN [st |-> st, batch |-> batch, rebuilt_any |-> FALSE, raised |-> FALSE]
    ELSE RebuildDocs(st, h, dbv, ProcessedDocs(dbv), batch, encodeFails)


(***************************************************************************)
(* Inputs of the model.                                                    *)
(***************************************************************************)
EligibleDoc == [processed |-> TRUE, blacklisted |-> FALSE, current |-> TRUE,
                pages |-> <<0, 1>>,
                publication_year |-> Some(2023), authors |-> Some(<<"Smith">>),
                document_type |-> Some("paper")]
BareDoc == [EligibleDoc EXCEPT !.publication_year = None, !.authors = None,
                               !.document_type = None]
BlacklistedDoc == [EligibleDoc EXCEPT !.blacklisted = TRUE]

DbChoices == { [d \in PdfIds |-> IF d = 1 THEN EligibleDoc ELSE BlacklistedDoc] }

\* arguments of update_document_metadata
UpdateChoices ==
    { [publication_year |-> Some(2024), authors |-> Some(<<"Doe">>),
       document_type |-> Some("report")],
      [publication_year |-> None, authors |-> None, document_type |-> Some("report")] }

Filters ==
    { NoFilter,
      [NoFilter EXCEPT !.document_type = Some("paper")],
      [NoFilter EXCEPT !.document_type = Some("report")],
      [NoFilter EXCEPT !.pdf_id = Some(1)] }

LiveChunks(n) == [i \in 1..n |-> <<0, nextChunk + i - 1>>]
LiveMetadatas(pdf_id, n, profile) ==
    [i \in 1..n |->
        [pdf_id |-> Some(pdf_id), chunk_id |-> Some(<<0, nextChunk + i - 1>>),
         publication_year |-> profile.publication_year,
         authors |-> profile.authors,
         document_type |-> profile.document_type]]

\* the relevance columns a store's result frame may carry
Supplies == {{}, {"distance"}, {"score"}}

Returned(op, h, args, result) == [op |-> op, h |-> h, args |-> args, result |-> result]

SetStore(st) ==
    /\ tableExists' = st.exists
    /\ rows' = st.rows
    /\ table' = st.table

(***************************************************************************)
(* The operations, each a whole call on handle h.                          *)
(***************************************************************************)
\* the state after construction on a path that holds no table
Fresh ==
    /\ tableExists = FALSE
    /\ rows = <<>>
    /\ table = [h \in Handles |-> "none"]
    /\ scheduled = [h \in Handles |-> TRUE]
    /\ nextChunk = 1
    /\ nextBatch = 1
    /\ files = {}
    /\ ret = Returned("init", 1, <<>>, <<>>)

SearchArgs ==
    [query : Queries, n_results : -1..MaxResults, offset : -1..MaxOffset,
     filter : Filters, supplies : Supplies]

DefaultSearch ==
    [query |-> 0, n_results |-> 5, offset |-> 0, filter |-> NoFilter, supplies |-> {}]

\* The concurrent writers: a live request and the background reconciler.
Procs == {"live", "rebuild"}

Standing(pc, h) == [pc |-> pc, h |-> h, records |-> <<>>, ok |-> "none"]

NoRace ==
    /\ proc = [p \in Procs |-> Standing("idle", 1)]
    /\ race = [docs |-> <<>>, created |-> 0, raced |-> FALSE]

Init ==
    /\ Fresh
    /\ db \in DbChoices
    /\ ask = DefaultSearch
    /\ NoRace

\* ensure_async_rebuild(): a reconciliation is scheduled for the backend
EnsureAsyncRebuild(sch, h) == [sch EXCEPT ![h] = TRUE]

\* a constructor that schedules only when it finds no table
NeedsRebuildWhenAbsent(opened, count) == opened = "none"

\* __init__: self.table is None, or get_document_count() == 0
NeedsRebuild(opened, count) == opened = "none" \/ count = 0

\* __init__: probe for the table and schedule reconciliation when it is
\* absent or empty.
Construct(h) ==
    LET opened == OpenTable(Store, {})
        st == [Store EXCEPT !.table[h] = opened]
    IN /\ SetStore(st)
       /\ scheduled' = IF NeedsRebuild(opened, GetDocumentCountOf(st, h, {}))
                       THEN EnsureAsyncRebuild(scheduled, h)
                       ELSE [scheduled EXCEPT ![h] = FALSE]
       /\ ret' = Returned("init", h, <<>>, <<>>)
       /\ UNCHANGED <<files, db, ask, proc, race, nextChunk, nextBatch>>

AddDocuments(h) ==
    \E pdf_id \in PdfIds, n \in 0..MaxN :
        LET chunks == LiveChunks(n)
            r == AddDocumentsOf(Store, h, chunks, [i \in 1..n |-> Embed(chunks[i])],
                                Some(LiveMetadatas(pdf_id, n, ProfileOf(pdf_id))), {})
        IN /\ nextChunk + n - 1 <= MaxChunk
           /\ Len(r.st.rows) <= MaxRows
           /\ SetStore(r.st)
           /\ nextChunk' = nextChunk + n
           /\ ret' = Returned("add_documents", h, [pdf_id |-> pdf_id, n |-> n],
                              [ok |-> r.ok])
           /\ UNCHANGED <<files, scheduled, db, ask, proc, race, nextBatch>>

GetDocumentCount(h) ==
    /\ ret' = Returned("get_document_count", h, <<>>,
                       [count |-> GetDocumentCountOf(Store, h, {})])
    /\ UNCHANGED <<files, tableExists, rows, table, scheduled, db, ask, proc, race, nextChunk, nextBatch>>

UpdateDocumentMetadata(h) ==
    \E pdf_id \in PdfIds, u \in UpdateChoices :
        LET r == UpdateDocumentMetadataOf(Store, h, pdf_id, u.publication_year,
                                          u.authors, u.document_type, {})
        IN /\ SetStore(r.st)
           /\ ret' = Returned("update_document_metadata", h,
                              [pdf_id |-> pdf_id, u |-> u], [ok |-> r.ok])
           /\ UNCHANGED <<files, scheduled, db, ask, proc, race, nextChunk, nextBatch>>

Delete(h) ==
    \E f \in Filters, ids \in {{}} \cup {{rows[i].id} : i \in 1..Len(rows)} :
        LET r == DeleteOf(Store, h, f, ids, {})
        IN /\ SetStore(r.st)
           /\ ret' = Returned("delete", h,
                              [neither |-> FilterIsEmpty(f) /\ ids = {}],
                              [ok |-> r.ok])
           /\ UNCHANGED <<files, scheduled, db, ask, proc, race, nextChunk, nextBatch>>

\* Another process ingests: a backend is constructed there, add_documents
\* is called on it, and the process ends.
ExternalIngest(g) ==
    \E pdf_id \in PdfIds, n \in 1..MaxN :
        LET chunks == LiveChunks(n)
            st0 == [Store EXCEPT !.table[g] = OpenTable(Store, {})]
            r == AddDocumentsOf(st0, g, chunks, [i \in 1..n |-> Embed(chunks[i])],
                                Some(LiveMetadatas(pdf_id, n, ProfileOf(pdf_id))), {})
        IN /\ nextChunk + n - 1 <= MaxChunk
           /\ Len(r.st.rows) <= MaxRows
           /\ SetStore([r.st EXCEPT !.table[g] = "none"])
           /\ nextChunk' = nextChunk + n
           /\ ret' = Returned("external", g, <<>>, [ok |-> r.ok])
           /\ UNCHANGED <<files, scheduled, db, ask, proc, race, nextBatch>>

\* reset, when no other handle holds the table that is dropped
Reset(h) ==
    LET r == ResetOf(Store, h, {})
    IN /\ \A g \in Handles \ {h} : table[g] = "none"
       /\ SetStore(r.st)
       /\ scheduled' = IF r.scheduled THEN EnsureAsyncRebuild(scheduled, h)
                       ELSE scheduled
       /\ ret' = Returned("reset", h, <<>>, [ok |-> r.ok])
       /\ UNCHANGED <<files, db, ask, proc, race, nextChunk, nextBatch>>

RebuildFromMarkdown(h) ==
    LET r == RebuildFromMarkdownOf(Store, h, db, nextBatch, NoFailures)
    IN /\ r.batch - 1 <= MaxBatch
       /\ Len(r.st.rows) <= MaxRows
       /\ SetStore(r.st)
       /\ nextBatch' = r.batch
       /\ scheduled' = [scheduled EXCEPT ![h] = FALSE]
       /\ ret' = Returned("rebuild_from_markdown", h, <<>>,
                          [rebuilt_any |-> r.rebuilt_any,
                           found |-> GetDocumentCountOf(Store, h, {})])
       /\ UNCHANGED <<files, db, ask, proc, race, nextChunk>>

Search(h) ==
    LET r == SearchOf(Store, h, ask.query, ask.n_results, ask.filter, ask.offset,
                      ask.supplies, {})
    IN /\ SetStore(r.st)
       /\ ret' = Returned("search", h, ask, r.result)
       /\ UNCHANGED <<files, scheduled, db, ask, proc, race, nextChunk, nextBatch>>

\* Handle 1 is the backend of this process; handle 2 belongs to another.
Next ==
    \/ Construct(1)
    \/ AddDocuments(1)
    \/ GetDocumentCount(1)
    \/ UpdateDocumentMetadata(1)
    \/ Delete(1)
    \/ Reset(1)
    \/ RebuildFromMarkdown(1)
    \/ ExternalIngest(2)

Spec == Init /\ [][Next]_vars

\* Ingestion and queries only: the tables that add_documents builds, and
\* every search over them.
NextSearch ==
    \/ AddDocuments(1)
    \/ ExternalIngest(2)
    \/ Search(1)

InitSearch ==
    /\ Fresh
    /\ db \in DbChoices
    /\ ask \in SearchArgs
    /\ NoRace

SpecSearch == InitSearch /\ [][NextSearch]_vars

(***************************************************************************)
(* Rows left by another writer (specification SpecDecode).  The metadata   *)
(* column is a plain string column: a writer other than this backend may   *)
(* leave text in it that is not JSON.  The blob of such a row is the       *)
(* record [valid |-> FALSE, json |-> what a valid blob would have held].   *)
(***************************************************************************)
\* one row is appended whose metadata column does not hold JSON
ForeignWrite ==
    \E pdf_id \in PdfIds :
        LET chunk == LiveChunks(1)[1]
            meta == LiveMetadatas(pdf_id, 1, ProfileOf(pdf_id))[1]
            row == [BuildRecord(chunk, Embed(chunk), meta)
                        EXCEPT !.metadata = [valid |-> FALSE, json |-> meta]]
        IN /\ nextChunk <= MaxChunk
           /\ Len(rows) < MaxRows
           /\ tableExists' = TRUE
           /\ rows' = Append(rows, row)
           /\ nextChunk' = nextChunk + 1
           /\ ret' = Returned("foreign", 2, <<>>, <<>>)
           /\ UNCHANGED <<files, table, scheduled, db, ask, proc, race, nextBatch>>

NextDecode ==
    \/ AddDocuments(1)
    \/ ForeignWrite
    \/ Search(1)

InitDecode ==
    /\ Fresh
    /\ db \in DbChoices
    /\ ask \in {a \in SearchArgs : a.supplies = {"distance"}}
    /\ NoRace

SpecDecode == InitDecode /\ [][NextDecode]_vars


(***************************************************************************)
(* Loading the embedding provider (specification SpecLoad).  A constructor *)
(* call of SentenceTransformer either returns ("ok") or raises the named   *)
(* exception.                                                              *)
(***************************************************************************)
Devices == {"cpu", "CPU", "cuda", "cuda:0", "mps"}
Outcomes == {"ok", "NotImplementedError", "RuntimeError", "OSError", "ValueError"}

\* str.lower() on the device names
Lower(device) == IF device = "CPU" THEN "cpu" ELSE device

\* _load_sentence_transformer: [attempts, loaded, raised]; attempts lists the
\* constructor calls made, first the outcome of the call on the preferred
\* device, retry that of the call without a device.
LoadSentenceTransformer(device_preference, first, retry) ==
    LET Fallback ==
            [attempts |-> <<"preferred", "agnostic">>,
             loaded |-> retry = "ok",
             raised |-> IF retry = "ok" THEN "none" ELSE retry]
    IN IF first = "ok"
       THEN [attempts |-> <<"preferred">>, loaded |-> TRUE, raised |-> "none"]
       ELSE IF first = "NotImplementedError" THEN Fallback
       ELSE IF Lower(device_preference) # "cpu" THEN Fallback
       ELSE [attempts |-> <<"preferred">>, loaded |-> FALSE, raised |-> first]

InitLoad ==
    /\ Fresh
    /\ db \in DbChoices
    /\ ask = DefaultSearch
    /\ NoRace

LoadProvider ==
    /\ \E device \in Devices, first \in Outcomes, retry \in Outcomes :
         ret' = Returned("_load_sentence_transformer", 1,
                         [device |-> device, first |-> first, retry |-> retry],
                         LoadSentenceTransformer(device, first, retry))
    /\ UNCHANGED <<files, tableExists, rows, table, scheduled, db, ask, proc, race,
                   nextChunk, nextBatch>>

NextLoad == LoadProvider

SpecLoad == InitLoad /\ [][NextLoad]_vars

(***************************************************************************)
(* Reconciliation over every canonical store (specification SpecRebuild):  *)
(* each pass runs with a set of documents whose embedding raises and a set *)
(* whose insertion fails.                                                  *)
(***************************************************************************)
UnprocessedDoc == [EligibleDoc EXCEPT !.processed = FALSE]
StaleDoc == [EligibleDoc EXCEPT !.current = FALSE]
PagelessDoc == [EligibleDoc EXCEPT !.pages = <<>>]
BlankDoc == [EligibleDoc EXCEPT !.pages = <<0>>]

DocKinds == {EligibleDoc, BareDoc, BlacklistedDoc, UnprocessedDoc, StaleDoc,
             PagelessDoc, BlankDoc}

InitRebuild ==
    /\ Fresh
    /\ db \in [PdfIds -> DocKinds]
    /\ ask = DefaultSearch
    /\ NoRace

RebuildFromMarkdownUnder(h) ==
    \E encode \in SUBSET PdfIds, insert \in SUBSET PdfIds :
        LET fails == [encode |-> encode, insert |-> insert]
            r == RebuildFromMarkdownOf(Store, h, db, nextBatch, fails)
        IN /\ r.batch - 1 <= MaxBatch
           /\ Len(r.st.rows) <= MaxRows
           /\ SetStore(r.st)
           /\ nextBatch' = r.batch
           /\ scheduled' = [scheduled EXCEPT ![h] = FALSE]
           /\ ret' = Returned("rebuild_from_markdown", h, fails,
                              [rebuilt_any |-> r.rebuilt_any,
                               found |-> GetDocumentCountOf(Store, h, {}),
                               raised |-> r.raised])
           /\ UNCHANGED <<files, db, ask, proc, race, nextChunk>>

NextRebuild ==
    \/ RebuildFromMarkdownUnder(1)
    \/ AddDocuments(1)
    \/ Reset(1)

SpecRebuild == InitRebuild /\ [][NextRebuild]_vars

\* Cold starts only (specification SpecCold): reconciliation runs on the
\* index as construction or reset left it, over every canonical store.
NextCold ==
    \/ RebuildFromMarkdownUnder(1)
    \/ Reset(1)

SpecCold == InitRebuild /\ [][NextCold]_vars

(***************************************************************************)
(* A failing store (specification SpecFault): every contract operation of  *)
(* handle 1, each run with a set F of its store calls raising.             *)
(***************************************************************************)
ContractOps == {"add_documents", "search", "get_document_count", "delete",
                "update_document_metadata", "reset"}

\* The sets of calls that raise during one operation.  An operation ends at
\* the first exception that _open_table or get_document_count does not
\* absorb, so no more than two of its calls ever raise.
Faults(calls) == {F \in SUBSET calls : Cardinality(F) <= 2}

ReturnedUnder(op, h, result, raised, failed) ==
    [op |-> op, h |-> h, args |-> <<>>, result |-> result, raised |-> raised,
     failed |-> failed]

InitFault ==
    /\ Fresh
    /\ db \in DbChoices
    /\ ask = DefaultSearch
    /\ NoRace

AddDocumentsFaulty(h) ==
    \E pdf_id \in PdfIds, n \in 0..MaxN,
       F \in Faults({"table_names", "open_table", "create_table",
                     "table_names_again", "open_table_again", "add"}) :
        LET chunks == LiveChunks(n)
            r == AddDocumentsOf(Store, h, chunks, [i \in 1..n |-> Embed(chunks[i])],
                                Some(LiveMetadatas(pdf_id, n, ProfileOf(pdf_id))), F)
        IN /\ nextChunk + n - 1 <= MaxChunk
           /\ Len(r.st.rows) <= MaxRows
           /\ SetStore(r.st)
           /\ nextChunk' = nextChunk + n
           /\ ret' = ReturnedUnder("add_documents", h, [ok |-> r.ok], r.raised, r.failed)
           /\ UNCHANGED <<files, scheduled, db, ask, proc, race, nextBatch>>

SearchFaulty(h) ==
    \E F \in Faults({"table_names", "open_table", "count_rows", "search"}) :
        LET r == SearchOf(Store, h, ask.query, ask.n_results, ask.filter,
                          ask.offset, ask.supplies, F)
        IN /\ SetStore(r.st)
           /\ ret' = ReturnedUnder("search", h, r.result, r.raised, r.failed)
           /\ UNCHANGED <<files, scheduled, db, ask, proc, race, nextChunk, nextBatch>>

GetDocumentCountFaulty(h) ==
    \E F \in Faults({"count_rows"}) :
        LET r == GetDocumentCountRun(Store, h, F)
        IN /\ ret' = ReturnedUnder("get_document_count", h, [count |-> r.count],
                                   r.raised, r.failed)
           /\ UNCHANGED <<files, tableExists, rows, table, scheduled, db, ask, proc, race,
                          nextChunk, nextBatch>>

DeleteFaulty(h) ==
    \E f \in Filters, ids \in {{}} \cup {{rows[i].id} : i \in 1..Len(rows)},
       F \in Faults({"delete"}) :
        LET r == DeleteOf(Store, h, f, ids, F)
        IN /\ SetStore(r.st)
           /\ ret' = ReturnedUnder("delete", h, [ok |-> r.ok], r.raised, r.failed)
           /\ UNCHANGED <<files, scheduled, db, ask, proc, race, nextChunk, nextBatch>>

\* update_document_metadata with all three fields given
FullUpdates == {u \in UpdateChoices : ~IsNone(u.publication_year)}

UpdateDocumentMetadataFaulty(h) ==
    \E pdf_id \in PdfIds, u \in FullUpdates,
       F \in Faults({"table_names", "open_table", "search", "delete", "add"}) :
        LET r == UpdateDocumentMetadataOf(Store, h, pdf_id, u.publication_year,
                                          u.authors, u.document_type, F)
        IN /\ SetStore(r.st)
           /\ ret' = [ReturnedUnder("update_document_metadata", h, [ok |-> r.ok],
                                    r.raised, r.failed)
                          EXCEPT !.args = [pdf_id |-> pdf_id]]
           /\ UNCHANGED <<files, scheduled, db, ask, proc, race, nextChunk, nextBatch>>

ResetFaulty(h) ==
    \E F \in Faults({"table_names", "drop_table"}) :
        LET r == ResetOf(Store, h, F)
        IN /\ \A g \in Handles \ {h} : table[g] = "none"
           /\ SetStore(r.st)
           /\ scheduled' = IF r.scheduled THEN EnsureAsyncRebuild(scheduled, h)
                           ELSE scheduled
           /\ ret' = ReturnedUnder("reset", h, [ok |-> r.ok], r.raised, r.failed)
           /\ UNCHANGED <<files, db, ask, proc, race, nextChunk, nextBatch>>

NextFault ==
    \/ AddDocumentsFaulty(1)
    \/ SearchFaulty(1)
    \/ GetDocumentCountFaulty(1)
    \/ DeleteFaulty(1)
    \/ UpdateDocumentMetadataFaulty(1)
    \/ ResetFaulty(1)
    \/ ExternalIngest(2)
    \/ Construct(1)

SpecFault == InitFault /\ [][NextFault]_vars

(***************************************************************************)
(* Metadata synchronisation that loses chunks, followed by reconciliation  *)
(* (specification SpecLoss): live ingestion, update_document_metadata with *)
(* failing store calls, and reconciliation runs on the same backend.       *)
(***************************************************************************)
NextLoss ==
    \/ AddDocuments(1)
    \/ UpdateDocumentMetadataFaulty(1)
    \/ RebuildFromMarkdown(1)

SpecLoss == InitFault /\ [][NextLoss]_vars

(***************************************************************************)
(* Concurrent writers (specification SpecRace): add_documents and          *)
(* rebuild_from_markdown taken one store call or one access of self.table  *)
(* at a time.  The live request runs on handle 1; the reconciler runs on   *)
(* the same backend or on a backend of another process (handle 2).         *)
(***************************************************************************)
DbRace == [d \in PdfIds |-> IF d = 1 THEN EligibleDoc ELSE BareDoc]

InitRace ==
    /\ Fresh
    /\ db = DbRace
    /\ ask = DefaultSearch
    /\ \E g \in Handles :
         proc = [p \in Procs |-> IF p = "live" THEN Standing("idle", 1)
                                              ELSE Standing("r_check", g)]
    /\ race = [docs |-> <<>>, created |-> 0, raced |-> FALSE]

\* where a writer goes when its add_documents call returns
After(p) == IF p = "live" THEN "idle" ELSE "r_loop"

Goto(p, pc) == proc' = [proc EXCEPT ![p].pc = pc]
Return(p, ok) == proc' = [proc EXCEPT ![p].pc = After(p), ![p].ok = ok]

RaceFrame == UNCHANGED <<files, scheduled, db, ask, ret>>

\* a live request calls add_documents with n >= 1 chunks
LiveCall ==
    /\ proc["live"].pc = "idle"
    /\ \E pdf_id \in PdfIds, n \in 1..MaxN :
         LET chunks == LiveChunks(n)
         IN /\ nextChunk + n - 1 <= MaxChunk
            /\ proc' = [proc EXCEPT
                  !["live"].pc = "start",
                  !["live"].ok = "none",
                  !["live"].records =
                      BuildRecords(chunks, [i \in 1..n |-> Embed(chunks[i])],
                                   LiveMetadatas(pdf_id, n, ProfileOf(pdf_id)))]
            /\ nextChunk' = nextChunk + n
    /\ UNCHANGED <<files, tableExists, rows, table, race, nextBatch>>
    /\ RaceFrame

\* add_documents: if self.table is None
AddStart(p) ==
    /\ proc[p].pc = "start"
    /\ Goto(p, IF table[proc[p].h] = "none" THEN "ensure" ELSE "add")
    /\ UNCHANGED <<files, tableExists, rows, table, race, nextChunk, nextBatch>>
    /\ RaceFrame

\* _ensure_table: return at once with a table handle or without records
EnsureEnter(p) ==
    /\ proc[p].pc = "ensure"
    /\ Goto(p, IF table[proc[p].h] # "none" \/ proc[p].records = <<>>
                THEN "checked" ELSE "probe")
    /\ UNCHANGED <<files, tableExists, rows, table, race, nextChunk, nextBatch>>
    /\ RaceFrame

\* _ensure_table: existing = self._open_table()
Probe(p) ==
    /\ proc[p].pc = "probe"
    /\ IF OpenTable(Store, {}) = "open"
       THEN /\ table' = [table EXCEPT ![proc[p].h] = "open"]
            /\ Goto(p, "checked")
       ELSE /\ Goto(p, "create")
            /\ UNCHANGED table
    /\ UNCHANGED <<files, tableExists, rows, race, nextChunk, nextBatch>>
    /\ RaceFrame

\* _ensure_table: client.create_table(name, records, schema)
Create(p) ==
    /\ proc[p].pc = "create"
    /\ IF tableExists
       THEN /\ Goto(p, "reopen")
            /\ race' = [race EXCEPT !.raced = TRUE]
            /\ UNCHANGED <<files, tableExists, rows>>
       ELSE LET st == CreateTable(Store, proc[p].h, proc[p].records)
            IN /\ tableExists' = st.exists
               /\ rows' = st.rows
               /\ Goto(p, "assign")
               /\ race' = [race EXCEPT !.created = race.created + 1]
    /\ UNCHANGED <<files, table, nextChunk, nextBatch>>
    /\ RaceFrame

\* _ensure_table: self.table = <the table created>
Assign(p) ==
    /\ proc[p].pc = "assign"
    /\ table' = [table EXCEPT ![proc[p].h] = "open"]
    /\ Goto(p, "checked")
    /\ UNCHANGED <<files, tableExists, rows, race, nextChunk, nextBatch>>
    /\ RaceFrame

\* _ensure_table, after "already exists": self.table = self._open_table();
\* the error is raised again when that finds nothing
Reopen(p) ==
    /\ proc[p].pc = "reopen"
    /\ table' = [table EXCEPT ![proc[p].h] = ReopenTable(Store, {})]
    /\ IF ReopenTable(Store, {}) = "open" THEN Goto(p, "checked") ELSE Return(p, "false")
    /\ UNCHANGED <<files, tableExists, rows, race, nextChunk, nextBatch>>
    /\ RaceFrame

\* add_documents: if self.table is None after _ensure_table
Checked(p) ==
    /\ proc[p].pc = "checked"
    /\ IF table[proc[p].h] = "none" THEN Return(p, "false") ELSE Goto(p, "add")
    /\ UNCHANGED <<files, tableExists, rows, table, race, nextChunk, nextBatch>>
    /\ RaceFrame

\* add_documents: self.table.add(records); return True
Add(p) ==
    /\ proc[p].pc = "add"
    /\ Len(rows) + Len(proc[p].records) <= MaxRows
    /\ rows' = TableAdd(Store, proc[p].records).rows
    /\ Return(p, "true")
    /\ UNCHANGED <<files, tableExists, table, race, nextChunk, nextBatch>>
    /\ RaceFrame

\* rebuild_from_markdown: if self.get_document_count() > 0: return
RebuildCheck ==
    /\ proc["rebuild"].pc = "r_check"
    /\ IF GetDocumentCountOf(Store, proc["rebuild"].h, {}) > 0
       THEN Goto("rebuild", "r_done") /\ UNCHANGED race
       ELSE Goto("rebuild", "r_loop") /\ race' = [race EXCEPT !.docs = ProcessedDocs(db)]
    /\ UNCHANGED <<files, tableExists, rows, table, nextChunk, nextBatch>>
    /\ RaceFrame

\* rebuild_from_markdown: the next document of the loop, up to its call
\* of add_documents
RebuildNext ==
    /\ proc["rebuild"].pc = "r_loop"
    /\ IF race.docs = <<>>
       THEN Goto("rebuild", "r_done") /\ UNCHANGED <<files, race, nextBatch>>
       ELSE LET d == Head(race.docs)
                doc == db[d]
                chunks == RebuildChunks(doc, nextBatch)
            IN /\ race' = [race EXCEPT !.docs = Tail(race.docs)]
               /\ IF doc.blacklisted \/ ~MarkdownIsCurrent(doc) \/ doc.pages = <<>>
                  THEN UNCHANGED <<files, proc, nextBatch>>
                  ELSE /\ nextBatch <= MaxBatch
                       /\ nextBatch' = nextBatch + 1
                       /\ IF chunks = <<>> THEN UNCHANGED proc
                          ELSE proc' = [proc EXCEPT
                                 !["rebuild"].pc = "start",
                                 !["rebuild"].ok = "none",
                                 !["rebuild"].records =
                                     BuildRecords(chunks,
                                                  [i \in 1..Len(chunks) |-> Embed(chunks[i])],
                                                  RebuildMetadatas(d, doc, nextBatch))]
    /\ UNCHANGED <<files, tableExists, rows, table, nextChunk>>
    /\ RaceFrame

NextRace ==
    \/ LiveCall
    \/ RebuildCheck
    \/ RebuildNext
    \/ \E p \in Procs :
         \/ AddStart(p)
         \/ EnsureEnter(p)
         \/ Probe(p)
         \/ Create(p)
         \/ Assign(p)
         \/ Reopen(p)
         \/ Checked(p)
         \/ Add(p)

SpecRace == InitRace /\ [][NextRace]_vars

(***************************************************************************)
(* Metadata synchronisation beside live ingestion (specification           *)
(* SpecSync): update_document_metadata taken one store call at a time      *)
(* while a live request runs add_documents on the same backend.  The       *)
(* arguments of the update are those of the behaviour (ask).  The live     *)
(* request is the only writer that creates the table, so its create_table  *)
(* never meets "already exists".                                           *)
(***************************************************************************)
Writers == {"live", "update"}

InitSync ==
    /\ Fresh
    /\ db \in DbChoices
    /\ ask \in [pdf_id : PdfIds, u : FullUpdates]
    /\ proc = [p \in Writers |-> Standing("idle", 1)]
    /\ race = [docs |-> <<>>, created |-> 0, raced |-> FALSE]

UpdateReturn(ok) ==
    proc' = [proc EXCEPT !["update"].pc = "idle", !["update"].ok = ok]

\* a request calls update_document_metadata
UpdateCall ==
    /\ proc["update"].pc = "idle"
    /\ proc' = [proc EXCEPT !["update"].pc = "u_open", !["update"].ok = "none",
                            !["update"].records = <<>>]
    /\ UNCHANGED <<files, tableExists, rows, table, race, nextChunk, nextBatch>>
    /\ RaceFrame

\* update_document_metadata: open the table if self.table is None; return
\* False when there is none
UpdateOpen ==
    LET h == proc["update"].h
        opened == IF table[h] = "none" THEN OpenTable(Store, {}) ELSE table[h]
    IN /\ proc["update"].pc = "u_open"
       /\ table' = [table EXCEPT ![h] = opened]
       /\ IF opened = "none" THEN UpdateReturn("false") ELSE Goto("update", "u_fetch")
       /\ UNCHANGED <<files, tableExists, rows, race, nextChunk, nextBatch>>
       /\ RaceFrame

\* update_document_metadata: read the document's rows and rebuild them;
\* return True when there are none
UpdateFetch ==
    LET df == TakeRows(Matching(rows, PdfFilter(ask.pdf_id)), UpdateFetchLimit)
        updated_records ==
            [i \in 1..Len(df) |->
                UpdatedRecord(df[i], ask.u.publication_year, ask.u.authors,
                              ask.u.document_type)]
    IN /\ proc["update"].pc = "u_fetch"
       /\ IF df = <<>> THEN UpdateReturn("true")
          ELSE proc' = [proc EXCEPT !["update"].pc = "u_delete",
                                    !["update"].records = updated_records]
       /\ UNCHANGED <<files, tableExists, rows, table, race, nextChunk, nextBatch>>
       /\ RaceFrame

\* update_document_metadata: self.table.delete(where=where_expr)
UpdateDelete ==
    /\ proc["update"].pc = "u_delete"
    /\ rows' = TableDelete(Store, PdfFilter(ask.pdf_id)).rows
    /\ Goto("update", "u_add")
    /\ UNCHANGED <<files, tableExists, table, race, nextChunk, nextBatch>>
    /\ RaceFrame

\* update_document_metadata: self.table.add(updated_records); return True
UpdateAdd ==
    /\ proc["update"].pc = "u_add"
    /\ Len(rows) + Len(proc["update"].records) <= MaxRows
    /\ rows' = TableAdd(Store, proc["update"].records).rows
    /\ UpdateReturn("true")
    /\ UNCHANGED <<files, tableExists, table, race, nextChunk, nextBatch>>
    /\ RaceFrame

NextSync ==
    \/ LiveCall
    \/ AddStart("live")
    \/ EnsureEnter("live")
    \/ Probe("live")
    \/ Create("live")
    \/ Assign("live")
    \/ Checked("live")
    \/ Add("live")
    \/ UpdateCall
    \/ UpdateOpen
    \/ UpdateFetch
    \/ UpdateDelete
    \/ UpdateAdd

SpecSync == InitSync /\ [][NextSync]_vars

(***************************************************************************)
(* Archive file names (specification SpecName).  A string is the sequence  *)
(* of its characters; an optional argument is None or Some(string).        *)
(***************************************************************************)
max_len == 150
MaxText == 2     \* length of the short texts tried as author, title, name

UnsafeChars == {"<", ">", ":", "\"", "/", "\\", "|", "?", "*"}
Whitespace == {" ", "\t", "\n"}
DigitChars == <<"0", "1", "2", "3", "4", "5", "6", "7", "8", "9">>
PdfSuffix == <<".", "p", "d", "f">>

SetMin(S) == CHOOSE x \in S : \A y \in S : x <= y
SetMax(S) == CHOOSE x \in S : \A y \in S : x >= y
Rep(c, n) == [i \in 1..n |-> c]
Occurs(c, s) == {i \in 1..Len(s) : s[i] = c}

\* str.lstrip(chars), str.rstrip(chars), str.strip(chars)
LStrip(s, chars) ==
    LET keep == {i \in 1..Len(s) : s[i] \notin chars}
    IN IF keep = {} THEN <<>> ELSE SubSeq(s, SetMin(keep), Len(s))
RStrip(s, chars) ==
    LET keep == {i \in 1..Len(s) : s[i] \notin chars}
    IN IF keep = {} THEN <<>> ELSE SubSeq(s, 1, SetMax(keep))
Strip(s, chars) == LStrip(RStrip(s, chars), chars)

RECURSIVE SubRuns(_, _)
\* re.sub('[chars]+', '_', s): every maximal run becomes one underscore
\* (computed by halves: a run that spans the middle is written once)
SubRuns(s, chars) ==
    IF Len(s) = 0 THEN <<>>
    ELSE IF Len(s) = 1 THEN (IF s[1] \in chars THEN <<"_">> ELSE <<s[1]>>)
    ELSE LET mid == Len(s) \div 2
             left == SubRuns(SubSeq(s, 1, mid), chars)
             right == SubRuns(SubSeq(s, mid + 1, Len(s)), chars)
         IN IF s[mid] \in chars /\ s[mid + 1] \in chars
            THEN left \o Tail(right) ELSE left \o right

SanitizeFilename(text) ==
    IF text = <<>> THEN <<>>
    ELSE LET replaced == [i \in 1..Len(text) |->
                             IF text[i] \in UnsafeChars THEN "_" ELSE text[i]]
             spaced == SubRuns(replaced, Whitespace)
             collapsed == SubRuns(spaced, {"_"})
             result == Strip(collapsed, {"_"})
         IN IF Len(result) > max_len
            THEN RStrip(SubSeq(result, 1, max_len), {"_"})
            ELSE result

RECURSIVE StrOfNat(_)
StrOfNat(n) ==
    IF n < 10 THEN <<DigitChars[n + 1]>>
    ELSE StrOfNat(n \div 10) \o <<DigitChars[(n % 10) + 1]>>
\* str(year)
StrOfInt(n) == IF n < 0 THEN <<"-">> \o StrOfNat(0 - n) ELSE StrOfNat(n)

RECURSIVE Join(_)
\* "_".join(parts)
Join(parts) ==
    IF parts = <<>> THEN <<>>
    ELSE IF Len(parts) = 1 THEN parts[1]
    ELSE parts[1] \o <<"_">> \o Join(Tail(parts))

\* the last name taken from "Last, First" or "First Last"
LastName(first_author) ==
    LET author_clean == Strip(first_author, Whitespace)
        commas == Occurs(",", author_clean)
        blanks == {i \in 1..Len(author_clean) : author_clean[i] \in Whitespace}
    IN IF commas # {}
       THEN Strip(SubSeq(author_clean, 1, SetMin(commas) - 1), Whitespace)
       ELSE IF blanks = {} THEN author_clean
       ELSE SubSeq(author_clean, SetMax(blanks) + 1, Len(author_clean))

BuildStructuredArchiveFilename(first_author, year, title, fallback_filename) ==
    LET last_name == IF IsNone(first_author) THEN <<>> ELSE LastName(first_author[1])
        author_part == IF last_name # <<>> THEN <<SanitizeFilename(last_name)>> ELSE <<>>
        year_part == IF TruthyInt(year) THEN <<StrOfInt(year[1])>> ELSE <<>>
        title_part == IF ~IsNone(title) /\ title[1] # <<>>
                      THEN <<SanitizeFilename(title[1])>> ELSE <<>>
        parts == author_part \o year_part \o title_part
    IN IF parts # <<>> THEN Join(parts) \o PdfSuffix ELSE fallback_filename

\* Path(p).name, Path(p).suffix and Path(p).stem
PathName(p) ==
    LET slashes == Occurs("/", p)
    IN IF slashes = {} THEN p ELSE SubSeq(p, SetMax(slashes) + 1, Len(p))
PathSuffix(p) ==
    LET name == PathName(p)
        dots == Occurs(".", name)
    IN IF dots # {} /\ 1 < SetMax(dots) /\ SetMax(dots) < Len(name)
       THEN SubSeq(name, SetMax(dots), Len(name)) ELSE <<>>
PathStem(p) == SubSeq(PathName(p), 1, Len(PathName(p)) - Len(PathSuffix(p)))

Alphabet == {"a", "_", " ", "/", ","}
ShortTexts == UNION {[1..n -> Alphabet] : n \in 0..MaxText}
LongTexts == {Rep("a", max_len), Rep("a", max_len + 1),
              Rep("a", max_len - 1) \o <<"_", "a">>}
Titles == {None} \cup {Some(t) : t \in ShortTexts \cup LongTexts}
FirstAuthors ==
    {None} \cup {Some(t) : t \in {<<>>, <<" ">>, <<"a">>, <<"a", " ", "b">>,
                                  <<"a", ",", " ", "b">>, <<",", "b">>, <<"_">>,
                                  <<"a", "/", "b">>, Rep("a", max_len)}}
Years == {None, Some(0), Some(2023)}
FallbackFilenames ==
    {t \o PdfSuffix : t \in {<<"a">>, <<"a", "/", "b">>, <<"a", " ", " ", "b">>,
                              <<"a", "_", "_", "b">>, Rep("a", max_len + 1)}}

NameArgs ==
    [first_author : FirstAuthors, year : Years, title : Titles,
     fallback_filename : FallbackFilenames]

\* each behaviour calls with one choice of arguments
InitName ==
    /\ Fresh
    /\ db \in DbChoices
    /\ ask \in NameArgs
    /\ NoRace

BuildName ==
    /\ ret' = Returned("build_structured_archive_filename", 1, ask,
                       [name |-> BuildStructuredArchiveFilename(
                                     ask.first_author, ask.year, ask.title,
                                     ask.fallback_filename)])
    /\ UNCHANGED <<files, tableExists, rows, table, scheduled, db, ask, proc, race,
                   nextChunk, nextBatch>>

NextName == BuildName

SpecName == InitName /\ [][NextName]_vars

(***************************************************************************)
(* Archive files on disk (specification SpecArchive).  A file is a record  *)
(* [path, content]; a path string with a leading "./" names the same file  *)
(* as the string without it.  Calls are sequential.                        *)
(***************************************************************************)
MaxFiles == 2    \* files ever created in the archive

ARCHIVE_DIR == <<"archive">>

\* str(Path(ARCHIVE_DIR) / name)
InArchive(name) == ARCHIVE_DIR \o <<"/">> \o name

\* the file a path string names
Normalized(p) ==
    IF Len(p) >= 2 /\ p[1] = "." /\ p[2] = "/" THEN SubSeq(p, 3, Len(p)) ELSE p

\* Path.exists() / os.path.exists()
Exists(fs, p) == \E f \in fs : f.path = Normalized(p)

\* `exclude_path and str(p) == exclude_path`
IsExcluded(p, exclude_path) ==
    ~IsNone(exclude_path) /\ exclude_path[1] # <<>> /\ p = exclude_path[1]

\* Path(ARCHIVE_DIR) / f"{stem}({counter}){suffix}"
Suffixed(base_path, counter) ==
    InArchive(PathStem(base_path) \o <<"(">> \o StrOfInt(counter) \o <<")">>
              \o PathSuffix(base_path))

\* the loop's exit test at one counter
LoopReturns(fs, base_path, exclude_path, counter) ==
    \/ IsExcluded(Suffixed(base_path, counter), exclude_path)
    \/ ~Exists(fs, Suffixed(base_path, counter))

\* a loop that stops at some later counter that passes the test
LastCounter(fs, base_path, exclude_path) ==
    SetMax({k \in 1..(Cardinality(fs) + 1) : LoopReturns(fs, base_path, exclude_path, k)})

\* `while True`: return at this counter, or go round with the next one
RECURSIVE WhileTrue(_, _, _, _)
WhileTrue(fs, base_path, exclude_path, counter) ==
    IF LoopReturns(fs, base_path, exclude_path, counter) THEN counter
    ELSE WhileTrue(fs, base_path, exclude_path, counter + 1)

\* a loop that starts at counter = 2
CounterFromTwo(fs, base_path, exclude_path) == WhileTrue(fs, base_path, exclude_path, 2)

\* counter = 1, then the loop: the counter at which it returns
FirstCounter(fs, base_path, exclude_path) == WhileTrue(fs, base_path, exclude_path, 1)

\* the target path handed back without looking at the disk
GetUniqueArchivePathUnchecked(fs, original_filename, first_author, year, title, exclude_path) ==
    InArchive(BuildStructuredArchiveFilename(first_author, year, title,
                                             original_filename))

GetUniqueArchivePath(fs, original_filename, first_author, year, title, exclude_path) ==
    LET target_filename == BuildStructuredArchiveFilename(first_author, year, title,
                                                          original_filename)
        base_path == InArchive(target_filename)
    IN IF IsExcluded(base_path, exclude_path) THEN base_path
       ELSE IF ~Exists(fs, base_path) THEN base_path
       ELSE Suffixed(base_path, FirstCounter(fs, base_path, exclude_path))

\* shutil.move(src, dst): the file leaves src and replaces whatever dst held
Move(fs, src, dst) ==
    LET moved == CHOOSE f \in fs : f.path = Normalized(src)
    IN {f \in fs : f.path \notin {Normalized(src), Normalized(dst)}}
       \cup {[path |-> Normalized(dst), content |-> moved.content]}

\* a rename onto the target name whatever is there
RenameArchiveOntoTarget(fs, archive_path, filename, first_author, year, title, moveFails) ==
    IF IsNone(archive_path) \/ archive_path[1] = <<>> \/ ~Exists(fs, archive_path[1])
    THEN [fs |-> fs, result |-> None]
    ELSE LET new_path == GetUniqueArchivePathUnchecked(fs, filename, first_author,
                                                       year, title, archive_path)
         IN IF new_path = archive_path[1] \/ moveFails
            THEN [fs |-> fs, result |-> None]
            ELSE [fs |-> Move(fs, archive_path[1], new_path),
                  result |-> Some(new_path)]

\* rename_archive_for_document: [fs, result]; moveFails tells whether
\* shutil.move raises (the rename then does not happen)
RenameArchiveForDocument(fs, archive_path, filename, first_author, year, title, moveFails) ==
    IF IsNone(archive_path) \/ archive_path[1] = <<>> \/ ~Exists(fs, archive_path[1])
    THEN [fs |-> fs, result |-> None]
    ELSE LET new_path == GetUniqueArchivePath(fs, filename, first_author, year,
                                              title, archive_path)
         IN IF new_path = archive_path[1] \/ moveFails
            THEN [fs |-> fs, result |-> None]
            ELSE [fs |-> Move(fs, archive_path[1], new_path),
                  result |-> Some(new_path)]

\* what the callers of this behaviour know about a document
\* (nothing, an author and a year, or nothing about a file that was
\* uploaded under the name the first document's metadata gives)
Namings ==
    {[first_author |-> None, year |-> None, title |-> None,
      filename |-> <<"o">> \o PdfSuffix],
     [first_author |-> Some(<<"a", " ", "b">>), year |-> Some(7), title |-> None,
      filename |-> <<"o">> \o PdfSuffix],
     [first_author |-> None, year |-> None, title |-> None,
      filename |-> <<"b", "_", "7">> \o PdfSuffix]}

\* the path strings a caller may hold: none, a file's path in either
\* spelling, the path of no file
PathsHeld(fs) ==
    {None, Some(InArchive(<<"x">> \o PdfSuffix))}
    \cup {Some(f.path) : f \in fs}
    \cup {Some(<<".", "/">> \o f.path) : f \in fs}

\* each behaviour asks for paths under one naming and renames under one
InitArchive ==
    /\ Fresh
    /\ db \in DbChoices
    /\ ask \in [upload : Namings, rename : Namings]
    /\ NoRace

GetUniqueArchivePathCall ==
    \E n \in {ask.upload}, exclude_path \in PathsHeld(files) :
        /\ ret' = Returned("get_unique_archive_path", 1,
                           [naming |-> n, exclude_path |-> exclude_path],
                           [path |-> GetUniqueArchivePath(files, n.filename,
                                         n.first_author, n.year, n.title,
                                         exclude_path)])
        /\ UNCHANGED <<files, tableExists, rows, table, scheduled, db, ask, proc,
                       race, nextChunk, nextBatch>>

\* the caller writes a new file at the path it was handed
CreateFile ==
    /\ ret.op = "get_unique_archive_path"
    /\ ~Exists(files, ret.result.path)
    /\ Cardinality(files) < MaxFiles
    /\ files' = files \cup {[path |-> Normalized(ret.result.path),
                              content |-> Cardinality(files) + 1]}
    /\ ret' = Returned("create", 1, ret.args, ret.result)
    /\ UNCHANGED <<tableExists, rows, table, scheduled, db, ask, proc, race,
                   nextChunk, nextBatch>>

RenameArchive ==
    \E n \in {ask.rename}, archive_path \in PathsHeld(files), moveFails \in BOOLEAN :
        LET r == RenameArchiveForDocument(files, archive_path, n.filename,
                                          n.first_author, n.year, n.title, moveFails)
        IN /\ files' = r.fs
           /\ ret' = Returned("rename_archive_for_document", 1,
                              [naming |-> n, archive_path |-> archive_path,
                               moveFails |-> moveFails],
                              [path |-> r.result])
           /\ UNCHANGED <<tableExists, rows, table, scheduled, db, ask, proc, race,
                          nextChunk, nextBatch>>

NextArchive ==
    \/ GetUniqueArchivePathCall
    \/ CreateFile
    \/ RenameArchive

SpecArchive == InitArchive /\ [][NextArchive]_vars

(***************************************************************************)
(* Parsing the language model's answer (specification SpecParse).  A line  *)
(* is a sequence of tokens: a word, a digit, ":", "," or a blank.          *)
(***************************************************************************)
MaxLines == 3    \* lines of a response

DOCUMENT_TYPES == {"paper", "handbook", "manual", "report", "other"}

\* the spellings of a word: lower case, capitalised, upper case
Spellings ==
    {<<"authors", "Authors", "AUTHORS">>, <<"year", "Year", "YEAR">>,
     <<"type", "Type", "TYPE">>, <<"unknown", "Unknown", "UNKNOWN">>,
     <<"paper", "Paper", "PAPER">>, <<"novel", "Novel", "NOVEL">>,
     <<"doe", "Doe", "DOE">>, <<"smith", "Smith", "SMITH">>, <<"x", "X", "X">>}

Respell(w, k) ==
    IF \E sp \in Spellings : w \in {sp[1], sp[2], sp[3]}
    THEN (CHOOSE sp \in Spellings : w \in {sp[1], sp[2], sp[3]})[k]
    ELSE w
\* str.lower() and str.upper()
LowerText(t) == [i \in 1..Len(t) |-> Respell(t[i], 1)]
UpperText(t) == [i \in 1..Len(t) |-> Respell(t[i], 3)]

\* str.startswith(prefix)
StartsWith(t, prefix) == Len(t) >= Len(prefix) /\ SubSeq(t, 1, Len(prefix)) = prefix

\* line.split(":", 1)[1]
AfterColon(t) == SubSeq(t, SetMin(Occurs(":", t)) + 1, Len(t))

RECURSIVE SplitOn(_, _)
\* str.split(sep)
SplitOn(t, sep) ==
    IF Occurs(sep, t) = {} THEN <<t>>
    ELSE <<SubSeq(t, 1, SetMin(Occurs(sep, t)) - 1)>>
         \o SplitOn(SubSeq(t, SetMin(Occurs(sep, t)) + 1, Len(t)), sep)

\* int(year_str): whether it parses, and its value
IntParses(t) == t # <<>> /\ \A i \in 1..Len(t) : Occurs(t[i], DigitChars) # {}
RECURSIVE IntOf(_)
IntOf(t) ==
    IF t = <<>> THEN 0
    ELSE 10 * IntOf(SubSeq(t, 1, Len(t) - 1))
         + (SetMin(Occurs(t[Len(t)], DigitChars)) - 1)

\* a comparison that knows one spelling only
IsUnknownAsSpelled(t) == t = <<"unknown">>

\* `x.lower() == "unknown"`
IsUnknown(t) == LowerText(t) = <<"unknown">>

\* the body of the loop over the lines
ParseLine(acc, raw) ==
    LET line == Strip(raw, Whitespace)
        value == Strip(AfterColon(line), Whitespace)
        NonEmpty(a) == a # <<>>
        Known(a) == ~IsUnknown(a)
        entries == SplitOn(value, ",")
        stripped == [i \in 1..Len(entries) |-> Strip(entries[i], Whitespace)]
    IN IF StartsWith(UpperText(line), <<"AUTHORS", ":">>)
       THEN IF ~IsUnknown(value) /\ value # <<>>
            THEN [acc EXCEPT !.authors = SelectSeq(SelectSeq(stripped, NonEmpty), Known)]
            ELSE acc
       ELSE IF StartsWith(UpperText(line), <<"YEAR", ":">>)
       THEN IF ~IsUnknown(value) /\ value # <<>> /\ IntParses(value)
               /\ 1900 <= IntOf(value) /\ IntOf(value) <= 2100
            THEN [acc EXCEPT !.publication_year = Some(IntOf(value))]
            ELSE acc
       ELSE IF StartsWith(UpperText(line), <<"TYPE", ":">>)
       THEN LET type_str == LowerText(value)
            IN [acc EXCEPT !.document_type =
                    IF Len(type_str) = 1 /\ type_str[1] \in DOCUMENT_TYPES
                    THEN Some(type_str[1]) ELSE Some("other")]
       ELSE acc

RECURSIVE ParseLines(_, _)
ParseLines(acc, lines) ==
    IF lines = <<>> THEN acc
    ELSE ParseLines(ParseLine(acc, Head(lines)), Tail(lines))

\* parse_llm_response, given the lines of the response text
ParseLlmResponse(lines) ==
    ParseLines([authors |-> <<>>, publication_year |-> None, document_type |-> None],
               lines)

ResponseLines ==
    {<<"authors", ":", " ", "UNKNOWN", ",", " ", "Doe">>,
     <<"AUTHORS", ":", " ", "Unknown">>,
     <<"AUTHORS", ":", "Doe", " ", ",", ",", "Smith">>,
     <<" ", "year", ":", " ", "2", "0", "2", "3">>,
     <<"YEAR", ":", "1", "8", "9", "9">>,
     <<"YEAR", ":", "2", "1", "0", "0">>,
     <<"Year", ":", "2", "1", "0", "1">>,
     <<"YEAR", ":", " ", "x">>,
     <<"type", ":", " ", "Paper">>,
     <<"TYPE", ":", " ", "novel">>,
     <<"TYPE", ":">>,
     <<"AUTHORS", " ", ":", "Doe">>,
     <<"x">>}

Responses == UNION {[1..n -> ResponseLines] : n \in 0..MaxLines}

InitParse ==
    /\ Fresh
    /\ db \in DbChoices
    /\ ask \in [lines : Responses]
    /\ NoRace

ParseResponse ==
    /\ ret' = Returned("parse_llm_response", 1, ask, ParseLlmResponse(ask.lines))
    /\ UNCHANGED <<files, tableExists, rows, table, scheduled, db, ask, proc, race,
                   nextChunk, nextBatch>>

NextParse == ParseResponse

SpecParse == InitParse /\ [][NextParse]_vars

(***************************************************************************)
(* Metadata synchronisation of large documents (specification SpecBulk).   *)
(* The chunks of a document are kept as one table entry: a row with the    *)
(* field copies, the number of consecutive chunk rows it stands for.       *)
(***************************************************************************)
\* chunk counts of a document, around the fetch limit of the update
BulkSizes == {1, UpdateFetchLimit - 1, UpdateFetchLimit, UpdateFetchLimit + 1}

\* the rows add_documents wrote for a document of that many chunks
BulkRun(pdf_id, copies) ==
    LET meta == LiveMetadatas(pdf_id, 1, ProfileOf(pdf_id))[1]
    IN BuildRecord(<<0, 1>>, Embed(<<0, 1>>), meta) @@ [copies |-> copies]

BulkTables ==
    {<<BulkRun(1, a)>> : a \in BulkSizes}
    \cup {<<BulkRun(1, a), BulkRun(2, b)>> : a \in BulkSizes, b \in BulkSizes}
    \cup {<<BulkRun(2, b), BulkRun(1, a)>> : a \in BulkSizes, b \in BulkSizes}

InitBulk ==
    /\ tableExists = TRUE
    /\ table = [h \in Handles |-> IF h = 1 THEN "open" ELSE "none"]
    /\ scheduled = [h \in Handles |-> FALSE]
    /\ nextChunk = 1
    /\ rows \in BulkTables
    /\ nextBatch = 1
    /\ files = {}
    /\ ret = Returned("init", 1, <<>>, <<>>)
    /\ db \in DbChoices
    /\ ask = DefaultSearch
    /\ NoRace

\* every way of giving or leaving out the three fields
AllUpdates ==
    [publication_year : {None, Some(2024)}, authors : {None, Some(<<"Doe">>)},
     document_type : {None, Some("report")}]

UpdateDocumentMetadataAny(h) ==
    \E pdf_id \in PdfIds, u \in AllUpdates :
        LET r == UpdateDocumentMetadataOf(Store, h, pdf_id, u.publication_year,
                                          u.authors, u.document_type, {})
        IN /\ SetStore(r.st)
           /\ ret' = Returned("update_document_metadata", h,
                              [pdf_id |-> pdf_id, u |-> u], [ok |-> r.ok])
           /\ UNCHANGED <<files, scheduled, db, ask, proc, race, nextChunk, nextBatch>>

NextBulk == UpdateDocumentMetadataAny(1)

SpecBulk == InitBulk /\ [][NextBulk]_vars

(***************************************************************************)
(* Deletion (specification SpecDelete): delete called with every filter    *)
(* and id set, on a backend constructed before or after the table was      *)
(* created by this process or by another one.                              *)
(***************************************************************************)
\* the id sets a caller passes: none, or the id of a row
IdSets == {{}} \cup {{rows[i].id} : i \in 1..Len(rows)}

DeleteCall(h) ==
    \E f \in Filters, ids \in IdSets :
        LET r == DeleteOf(Store, h, f, ids, {})
        IN /\ SetStore(r.st)
           /\ ret' = Returned("delete", h, [filter |-> f, ids |-> ids],
                              [ok |-> r.ok])
           /\ UNCHANGED <<files, scheduled, db, ask, proc, race, nextChunk, nextBatch>>

NextDelete ==
    \/ Construct(1)
    \/ AddDocuments(1)
    \/ ExternalIngest(2)
    \/ DeleteCall(1)

SpecDelete == Init /\ [][NextDelete]_vars

(***************************************************************************)
(* Caller-supplied metadata (specification SpecMeta): add_documents called *)
(* with every shape of its metadatas argument (None, a list shorter than   *)
(* the chunk list, a full list) and with or without a key that is no       *)
(* schema column, and searches over the rows.                              *)
(***************************************************************************)
ExtraValues ==
    {[t |-> "str", v |-> <<"7">>], [t |-> "int", v |-> <<"7">>],
     [t |-> "list", v |-> <<"a", "b">>], [t |-> "tuple", v |-> <<"a", "b">>]}

\* a dictionary with one more key
WithExtra(meta, x) == [k \in DOMAIN meta \cup {"extra"} |->
                          IF k = "extra" THEN x ELSE meta[k]]

\* the metadatas arguments for n chunks of a document
MetadatasArgs(pdf_id, n) ==
    LET plain == LiveMetadatas(pdf_id, n, ProfileOf(pdf_id))
        Full == {plain} \cup {[i \in 1..n |-> WithExtra(plain[i], x)] : x \in ExtraValues}
    IN {None} \cup {Some(m) : m \in Full}
       \cup {Some(SubSeq(m, 1, n - 1)) : m \in Full}

AddDocumentsWith(h) ==
    \E pdf_id \in PdfIds, n \in 0..MaxN :
      \E metadatas \in MetadatasArgs(pdf_id, n) :
        LET chunks == LiveChunks(n)
            r == AddDocumentsOf(Store, h, chunks, [i \in 1..n |-> Embed(chunks[i])],
                                metadatas, {})
        IN /\ nextChunk + n - 1 <= MaxChunk
           /\ Len(r.st.rows) <= MaxRows
           /\ SetStore(r.st)
           /\ nextChunk' = nextChunk + n
           /\ ret' = Returned("add_documents", h,
                              [chunks |-> chunks, metadatas |-> metadatas],
                              [ok |-> r.ok])
           /\ UNCHANGED <<files, scheduled, db, ask, proc, race, nextBatch>>

NextMeta ==
    \/ AddDocumentsWith(1)
    \/ Search(1)

SpecMeta == Init /\ [][NextMeta]_vars

(***************************************************************************)
(* The delete predicate (specification SpecExpr).  A filter is the         *)
(* dictionary's items in order; a key is one token, since the code copies  *)
(* it whole; a string value is its sequence of characters.  A value is     *)
(* [t, s, n, b]: its type t and, by type, the string s, the int n or the   *)
(* bool b.                                                                 *)
(***************************************************************************)
MaxLiteral == 2  \* length of the string values tried

StrValue(s) == [t |-> "str", s |-> s, n |-> 0, b |-> FALSE]
IntValue(n) == [t |-> "int", s |-> <<>>, n |-> n, b |-> FALSE]
BoolValue(b) == [t |-> "bool", s |-> <<>>, n |-> 0, b |-> b]

\* the classic break-out: ' or 'a'=='a
BreakOut == <<"'", " ", "o", "r", " ", "'", "a", "'", "=", "=", "'", "a">>

RECURSIVE TextsUpTo(_)
TextsUpTo(n) ==
    IF n = 0 THEN {<<>>}
    ELSE TextsUpTo(n - 1)
         \cup {Append(t, c) : t \in {u \in TextsUpTo(n - 1) : Len(u) = n - 1},
                              c \in {"a", "'"}}

FilterValues ==
    {StrValue(s) : s \in TextsUpTo(MaxLiteral) \cup {BreakOut}}
    \cup {IntValue(n) : n \in {-1, 0, 7}}
    \cup {BoolValue(b) : b \in BOOLEAN}
FilterKeys == {"document_type", "pdf_id"}
FilterItems ==
    {<<>>}
    \cup {<<[key |-> k, value |-> v]>> : k \in FilterKeys, v \in FilterValues}
    \cup {f \in {<<[key |-> k, value |-> v], [key |-> l, value |-> w]>> :
                    k \in FilterKeys, v \in FilterValues,
                    l \in FilterKeys, w \in FilterValues} : f[1].key # f[2].key}

\* an escaping that copies the value as it is
KeepQuotes(s) == s

\* value.replace("'", "''")
RECURSIVE EscapeQuotes(_)
EscapeQuotes(s) ==
    IF s = <<>> THEN <<>>
    ELSE (IF Head(s) = "'" THEN <<"'", "'">> ELSE <<Head(s)>>) \o EscapeQuotes(Tail(s))

\* f"{value}" of a value that is no string
Formatted(value) ==
    IF value.t = "bool"
    THEN (IF value.b THEN <<"T", "r", "u", "e">> ELSE <<"F", "a", "l", "s", "e">>)
    ELSE StrOfInt(value.n)

EqEq == <<" ", "=", "=", " ">>
AndWord == <<" ", "a", "n", "d", " ">>

\* f"{key} == '{escaped}'" for a string, f"{key} == {value}" otherwise
WhereClause(key, value) ==
    IF value.t = "str"
    THEN <<key>> \o EqEq \o <<"'">> \o EscapeQuotes(value.s) \o <<"'">>
    ELSE <<key>> \o EqEq \o Formatted(value)

\* " and ".join(clauses)
RECURSIVE JoinAnd(_)
JoinAnd(clauses) ==
    IF Len(clauses) = 1 THEN clauses[1]
    ELSE clauses[1] \o AndWord \o JoinAnd(Tail(clauses))

\* _delete_where_expr: None for an empty filter
DeleteWhereExpr(filter) ==
    IF filter = <<>> THEN None
    ELSE Some(JoinAnd([i \in 1..Len(filter) |->
                          WhereClause(filter[i].key, filter[i].value)]))

\* The store reads a quoted literal from behind its opening quote: two
\* quotes are one quote of the value, one quote ends the literal.
RECURSIVE ReadQuoted(_, _)
ReadQuoted(t, acc) ==
    IF t = <<>> THEN [ok |-> FALSE, value |-> StrValue(acc), rest |-> <<>>]
    ELSE IF Head(t) # "'" THEN ReadQuoted(Tail(t), Append(acc, Head(t)))
    ELSE IF Len(t) >= 2 /\ t[2] = "'" THEN ReadQuoted(Tail(Tail(t)), Append(acc, "'"))
    ELSE [ok |-> TRUE, value |-> StrValue(acc), rest |-> Tail(t)]

\* a bare literal runs to the next blank
RECURSIVE ReadBare(_, _)
ReadBare(t, acc) ==
    IF t # <<>> /\ Head(t) # " " THEN ReadBare(Tail(t), Append(acc, Head(t)))
    ELSE LET bools == {b \in BOOLEAN : Formatted(BoolValue(b)) = acc}
             ints == {n \in -9..9 : StrOfInt(n) = acc}
         IN IF bools # {}
            THEN [ok |-> TRUE, value |-> BoolValue(CHOOSE b \in bools : TRUE), rest |-> t]
            ELSE IF ints # {}
            THEN [ok |-> TRUE, value |-> IntValue(CHOOSE n \in ints : TRUE), rest |-> t]
            ELSE [ok |-> FALSE, value |-> StrValue(acc), rest |-> t]

ReadLiteral(t) ==
    IF t # <<>> /\ Head(t) = "'" THEN ReadQuoted(Tail(t), <<>>) ELSE ReadBare(t, <<>>)

Drop(t, n) == SubSeq(t, n + 1, Len(t))

\* the store's reading of `key == literal and key == literal ...`: the
\* items the predicate compares, or no reading at all
RECURSIVE ReadExpr(_)
ReadExpr(t) ==
    IF t = <<>> \/ ~StartsWith(Tail(t), EqEq) THEN [ok |-> FALSE, items |-> <<>>]
    ELSE LET lit == ReadLiteral(Drop(t, 1 + Len(EqEq)))
             item == [key |-> Head(t), value |-> lit.value]
         IN IF ~lit.ok THEN [ok |-> FALSE, items |-> <<>>]
            ELSE IF lit.rest = <<>> THEN [ok |-> TRUE, items |-> <<item>>]
            ELSE IF ~StartsWith(lit.rest, AndWord) THEN [ok |-> FALSE, items |-> <<>>]
            ELSE LET more == ReadExpr(Drop(lit.rest, Len(AndWord)))
                 IN [ok |-> more.ok, items |-> <<item>> \o more.items]

\* each behaviour builds the predicate of one filter
InitExpr ==
    /\ Fresh
    /\ db = [d \in PdfIds |-> BareDoc]
    /\ ask \in [filter : FilterItems]
    /\ NoRace

BuildExpr ==
    /\ ret' = Returned("_delete_where_expr", 1, ask,
                       [expr |-> DeleteWhereExpr(ask.filter)])
    /\ UNCHANGED <<files, tableExists, rows, table, scheduled, db, ask, proc, race,
                   nextChunk, nextBatch>>

NextExpr == BuildExpr

SpecExpr == InitExpr /\ [][NextExpr]_vars

(***************************************************************************)
(* Properties of the sequential lifecycle (specification Spec).            *)
(***************************************************************************)
Range(seq) == {seq[i] : i \in 1..Len(seq)}
RowsOf(pdf_id) == {i \in 1..Len(rows) : rows[i].pdf_id = pdf_id}
OptOr(o, default) == IF IsNone(o) THEN default ELSE o[1]
DocumentTypes == {"", "paper", "report"}

\* C1: an add_documents call of N >= 1 chunks that returns true raises
\* get_document_count() by exactly N.
C1_CountGrowsByN ==
    [][ (ret'.op = "add_documents" /\ ret'.result.ok /\ ret'.args.n >= 1)
        => GetDocumentCountOf(Store', ret'.h, {})
             = GetDocumentCountOf(Store, ret'.h, {}) + ret'.args.n ]_vars

\* C2: no two rows of the table carry the same id.
C2_IdsUnique ==
    \A i, j \in 1..Len(rows) : i # j => rows[i].id # rows[j].id

UpdateReturnedTrue == ret.op = "update_document_metadata" /\ ret.result.ok

\* what a search that asks for every row returns under a document_type filter
TypeSearch(query, document_type) ==
    SearchOf(Store, ret.h, query, MaxRows + 1,
             [NoFilter EXCEPT !.document_type = Some(document_type)], 0, {}, {}).result

\* C3: after update_document_metadata returns true every chunk row of the
\* document carries the new values; a search filtered on another
\* document_type does not return the document, one filtered on the new
\* document_type returns all of it.
C3_UpdateReachesEveryChunk ==
    UpdateReturnedTrue =>
      LET d == ret.args.pdf_id
          u == ret.args.u
          new_type == OptOr(u.document_type, "")
          texts == {rows[i].text : i \in RowsOf(d)}
      IN /\ \A i \in RowsOf(d) :
               /\ rows[i].publication_year = OptOr(u.publication_year, 0)
               /\ rows[i].authors = OptOr(u.authors, <<>>)
               /\ rows[i].document_type = new_type
         /\ \A query \in Queries :
               /\ \A old \in DocumentTypes \ {new_type} :
                      Range(TypeSearch(query, old).documents) \cap texts = {}
               /\ texts \subseteq Range(TypeSearch(query, new_type).documents)

\* C3 happens: an edit from "paper" to "report" succeeded on a document
\* that has chunk rows.
C3_Witness ==
    /\ UpdateReturnedTrue
    /\ ret.args.u.document_type = Some("report")
    /\ \E i \in RowsOf(ret.args.pdf_id) :
          JsonLoads(rows[i].metadata).document_type = Some("paper")

\* C4: after a metadata edit the values held in a row's JSON blob agree
\* with the row's three structured columns, on every row of the document.
C4_BlobAgreesWithColumns ==
    UpdateReturnedTrue =>
      \A i \in RowsOf(ret.args.pdf_id) :
        LET blob == JsonLoads(rows[i].metadata)
        IN /\ OptOr(blob.publication_year, 0) = rows[i].publication_year
           /\ OptOr(blob.authors, <<>>) = rows[i].authors
           /\ OptOr(blob.document_type, "") = rows[i].document_type

\* C5: a reconciliation run started while get_document_count() > 0, or
\* right after a run that inserted rows, changes neither the table nor
\* its rows.
C5_RebuildIsNoOpWhenPopulated ==
    [][ ( /\ ret'.op = "rebuild_from_markdown"
          /\ \/ GetDocumentCountOf(Store, ret'.h, {}) > 0
             \/ ret.op = "rebuild_from_markdown" /\ ret.h = ret'.h
                 /\ ret.result.rebuilt_any )
        => (rows' = rows /\ tableExists' = tableExists) ]_vars

\* C5 happens: a run found a populated index and returned.
C5_Witness ==
    /\ ret.op = "rebuild_from_markdown"
    /\ ret.result.found > 0
    /\ ~ret.result.rebuilt_any
    /\ \E i \in 1..Len(rows) : rows[i].text[1] >= 1

\* C12: delete called with neither a filter nor ids returns false and
\* deletes nothing, in every lifecycle state of the backend, the table
\* absent included.
C12_DeleteWithNeitherIsRefused ==
    [][(ret'.op = "delete" /\ ret'.args.neither)
        => (~ret'.result.ok /\ rows' = rows /\ tableExists' = tableExists)]_vars

\* C13: for a document without chunk rows in the index (an absent table
\* counting as zero rows) update_document_metadata returns true and changes
\* no row.
C13_UpdateWithoutRowsIsNoOp ==
    [][(ret'.op = "update_document_metadata" /\ RowsOf(ret'.args.pdf_id) = {})
        => (ret'.result.ok /\ rows' = rows /\ tableExists' = tableExists)]_vars

\* C14: in every reachable state every row has non-null, type-stable
\* structured fields: publication_year an integer, authors a list and
\* document_type a string, whichever of add_documents,
\* update_document_metadata or reconciliation wrote the row and whatever
\* keys the caller's metadata lacked.
C14_StructuredFieldsNeverNull ==
    \A i \in 1..Len(rows) :
        /\ rows[i].nulls = {}
        /\ rows[i].publication_year \in Nat
        /\ rows[i].authors \in Seq(STRING)
        /\ rows[i].document_type \in STRING

\* a live row whose metadata lacked the three keys beside a row written by
\* reconciliation, after an update that passed None for two of the fields
C14_Witness ==
    /\ ret.op = "update_document_metadata"
    /\ ret.result.ok
    /\ IsNone(ret.args.u.publication_year)
    /\ RowsOf(ret.args.pdf_id) # {}
    /\ \E i \in 1..Len(rows) :
         rows[i].text[1] = 0 /\ IsNone(JsonLoads(rows[i].metadata).publication_year)
    /\ \E i \in 1..Len(rows) : rows[i].text[1] >= 1

\* C19: add_documents called with an empty chunk list returns true and is
\* a no-op in every state: it creates no table, inserts no row and leaves
\* the lifecycle state of the backend unchanged.
C19_EmptyAddIsNoOp ==
    [][(ret'.op = "add_documents" /\ ret'.args.n = 0)
        => /\ ret'.result.ok
           /\ UNCHANGED <<files, tableExists, rows, table, scheduled>>]_vars

\* an empty add_documents has returned true on a backend without a table
C19_Witness ==
    /\ ret.op = "add_documents"
    /\ ret.args.n = 0
    /\ ret.result.ok
    /\ ~tableExists
    /\ table[ret.h] = "none"

ReconciliationInsert ==
    /\ proc'["rebuild"] # proc["rebuild"]
    /\ rows' # rows

\* rows of live add_documents calls carry batch 0 in their chunk
LiveRows == {i \in 1..Len(rows) : rows[i].text[1] = 0}

\* C6: under every interleaving of a reconciliation run with live
\* add_documents calls, on the same handle or on another handle to the same
\* table, no reconciliation insert is applied to a table that already holds
\* rows written by something other than that run.
C6_NeverMergesIntoPopulated ==
    [][ReconciliationInsert => LiveRows = {}]_vars

\* C7: when a live request and the reconciler both call add_documents with
\* nonempty input while the table is absent, under every interleaving of
\* their probe, create and open steps no call returns false ("already
\* exists" is never surfaced), the table is created at most once, and a
\* call that returned true used the one table: its handle is open on it and
\* its records are in it.
C7_FirstWritersConverge ==
    /\ race.created <= 1
    /\ \A p \in Procs :
         /\ proc[p].ok # "false"
         /\ proc[p].ok = "true" =>
              /\ tableExists
              /\ table[proc[p].h] = "open"
              /\ Range(proc[p].records) \subseteq Range(rows)

\* both writers found the table absent, the slower one met "already exists"
\* at create_table, and both calls have returned
C7_Witness ==
    /\ race.raced
    /\ race.created = 1
    /\ \A p \in Procs : proc[p].ok = "true" /\ proc[p].pc \in {"idle", "r_loop"}
    /\ \A p \in Procs : Range(proc[p].records) \subseteq Range(rows)

(***************************************************************************)
(* Properties of a failing store (specification SpecFault).                *)
(***************************************************************************)
\* false, the empty result shape, or 0
ReturnedSentinel ==
    CASE ret.op = "search" -> ret.result = EmptyShape
      [] ret.op = "get_document_count" -> ret.result.count = 0
      [] OTHER -> ~ret.result.ok

\* the store calls of _open_table, made by _ensure_table before it creates
ProbeCalls == {"table_names", "open_table"}

\* C10 as stated: whenever a store call raised during a contract operation,
\* the operation returned its sentinel and propagated no exception.
C10_SentinelOnEveryFailure ==
    (ret.op \in ContractOps /\ ret.failed # {})
        => (~ret.raised /\ ReturnedSentinel)

\* C10: no contract operation propagates an exception, and an operation in
\* which a store call raised returned its sentinel, unless it is
\* add_documents and the only calls that raised were those of the existence
\* probe of _ensure_table, which _open_table absorbs.
C10_TotalWithRespectToFailure ==
    ret.op \in ContractOps =>
        /\ ~ret.raised
        /\ ret.failed # {} =>
             \/ ReturnedSentinel
             \/ ret.op = "add_documents" /\ ret.failed \subseteq ProbeCalls

\* add fails after update_document_metadata has deleted the document's rows:
\* the operation returns false
C10_Witness ==
    /\ ret.op = "update_document_metadata"
    /\ "add" \in ret.failed
    /\ ~ret.raised
    /\ ~ret.result.ok

\* C18: after reset() returns true the persisted table no longer exists,
\* the backend is Uninitialized with get_document_count() = 0 and a
\* reconciliation is scheduled; when dropping the table fails reset returns
\* false and the table handle is left unchanged.
C18_ResetDropsAndSchedules ==
    [][ret'.op = "reset"
        => /\ ret'.result.ok =>
                /\ ~tableExists'
                /\ table'[ret'.h] = "none"
                /\ GetDocumentCountOf(Store', ret'.h, {}) = 0
                /\ scheduled'[ret'.h]
           /\ "drop_table" \in ret'.failed =>
                /\ ~ret'.result.ok
                /\ table'[ret'.h] = table[ret'.h]
                /\ tableExists' = tableExists]_vars

\* a reset whose drop_table raised on a populated table: false is returned
\* and the handle is still open
C18_Witness ==
    /\ ret.op = "reset"
    /\ "drop_table" \in ret.failed
    /\ ~ret.result.ok
    /\ table[ret.h] = "open"
    /\ rows # <<>>


(***************************************************************************)
(* Properties of search (specification SpecSearch).                        *)
(***************************************************************************)
HasMore(result) == "has_more" \in DOMAIN result /\ result.has_more
MatchingNow == Matching(rows, ret.args.filter)

\* C8: over a table with at least one row, has_more is true iff strictly
\* more than max(offset,0) + max(n_results,0) rows match the filter.
C8_HasMoreIffRowsRemain ==
    (ret.op = "search" /\ tableExists /\ Len(rows) >= 1) =>
      ( HasMore(ret.result)
          <=> Len(MatchingNow) > Max(ret.args.offset, 0) + Max(ret.args.n_results, 0) )

\* C8 happens: a filtered search with an offset left rows beyond its window.
C8_Witness ==
    /\ ret.op = "search"
    /\ HasMore(ret.result)
    /\ ret.args.offset >= 1
    /\ ret.args.n_results >= 1
    /\ ~FilterIsEmpty(ret.args.filter)


\* the lists a result carries
ResultLists(result) ==
    {result.documents, result.metadatas, result.distances}
      \cup (IF "scores" \in DOMAIN result THEN {result.scores} ELSE {})

\* the rows at positions [o, o + n) of the nearest-neighbour ordering of
\* the matching rows
WindowRows(o, n) ==
    LET ordered == NearestFirst(MatchingNow, ret.args.query)
    IN SubSeq(ordered, o + 1, Min(o + n, Len(ordered)))

\* C9, as stated: the lists returned all have length
\* min(n_results, max(0, matching - offset)), never more than n_results.
C9_WindowOfRawArguments ==
    ret.op = "search" =>
      \A list \in ResultLists(ret.result) :
        /\ Len(list) = Min(ret.args.n_results,
                           Max(0, Len(MatchingNow) - ret.args.offset))
        /\ Len(list) <= ret.args.n_results

\* C9, amended: with n = max(n_results, 0) and o = max(offset, 0), a search
\* that matches at least one row returns exactly the rows at positions
\* [o, o + n) of the nearest-neighbour ordering of the matching rows, in
\* four lists of the same length min(n, max(0, matching - o)) <= n, so the
\* probe row is never returned; a search that matches no row returns the
\* empty shape, which has no scores list.
C9_WindowOfClampedArguments ==
    ret.op = "search" =>
      LET n == Max(ret.args.n_results, 0)
          o == Max(ret.args.offset, 0)
          expected == WindowRows(o, n)
          result == ret.result
      IN IF tableExists /\ Len(MatchingNow) >= 1
         THEN /\ result.documents = [i \in 1..Len(expected) |-> expected[i].text]
              /\ result.metadatas =
                    [i \in 1..Len(expected) |-> JsonLoads(expected[i].metadata)]
              /\ Len(result.documents) = Min(n, Max(0, Len(MatchingNow) - o))
              /\ Len(result.documents) <= n
              /\ Len(result.distances) = Len(result.documents)
              /\ Len(result.scores) = Len(result.documents)
         ELSE result = EmptyShape

\* C9 happens: a filtered search with an offset filled its window and cut
\* the probe row off.
C9_Witness ==
    /\ ret.op = "search"
    /\ ret.args.offset >= 1
    /\ ret.args.n_results >= 1
    /\ ~FilterIsEmpty(ret.args.filter)
    /\ HasMore(ret.result)
    /\ Len(ret.result.documents) = ret.args.n_results
    /\ ret.result.total_fetched = ret.args.offset + ret.args.n_results + 1

\* the store with every metadata blob made valid JSON
Repaired(st) ==
    [st EXCEPT !.rows = [i \in 1..Len(st.rows) |->
                            [st.rows[i] EXCEPT !.metadata.valid = TRUE]]]

\* the stored row a returned chunk text belongs to
RowOfText(text) == rows[CHOOSE i \in 1..Len(rows) : rows[i].text = text]

\* C22: a row whose stored metadata is not valid JSON degrades only that
\* row's returned metadata to the empty object: the search returns the same
\* documents, distances, scores and has_more as over the repaired table, and
\* every other row's metadata as stored.
C22_MalformedBlobDegradesOneRow ==
    ret.op = "search" =>
        LET a == ret.args
            good == SearchOf(Repaired(Store), ret.h, a.query, a.n_results, a.filter,
                             a.offset, a.supplies, {}).result
        IN /\ DOMAIN ret.result = DOMAIN good
           /\ \A k \in DOMAIN good \ {"metadatas"} : ret.result[k] = good[k]
           /\ Len(ret.result.metadatas) = Len(good.metadatas)
           /\ \A i \in 1..Len(good.metadatas) :
                ret.result.metadatas[i] =
                    IF RowOfText(ret.result.documents[i]).metadata.valid
                    THEN good.metadatas[i] ELSE EmptyMeta

\* a search has returned two rows, one whose blob is not JSON and one whose
\* blob is, the first with the empty object and the second with its metadata
C22_Witness ==
    /\ ret.op = "search"
    /\ Len(ret.result.documents) = 2
    /\ \E i, j \in 1..2 :
         /\ ~RowOfText(ret.result.documents[i]).metadata.valid
         /\ ret.result.metadatas[i] = EmptyMeta
         /\ RowOfText(ret.result.documents[j]).metadata.valid
         /\ ret.result.metadatas[j] = RowOfText(ret.result.documents[j]).metadata.json
         /\ ~IsNone(ret.result.metadatas[j].pdf_id)

\* C23: every filename derived by build_structured_archive_filename contains
\* none of the characters < > : " / \ | ? *, has every run of whitespace or
\* underscores collapsed to a single underscore, and is at most 150
\* characters long before its extension.
C23_DerivedFilenamesAreSafe ==
    ret.op = "build_structured_archive_filename" =>
        LET name == ret.result.name
        IN /\ \A i \in 1..Len(name) : name[i] \notin UnsafeChars \cup Whitespace
           /\ \A i \in 1..(Len(name) - 1) : ~(name[i] = "_" /\ name[i + 1] = "_")
           /\ Len(PathStem(name)) <= max_len

\* the unsuffixed target path of a call
TargetOf(n) ==
    InArchive(BuildStructuredArchiveFilename(n.first_author, n.year, n.title,
                                             n.filename))

\* C24: get_unique_archive_path never returns a path that exists on disk at
\* call time, unless the returned path equals the explicitly excluded path.
C24_ReturnedPathIsFree ==
    ret.op = "get_unique_archive_path" =>
        \/ ~Exists(files, ret.result.path)
        \/ (~IsNone(ret.args.exclude_path)
              /\ ret.result.path = ret.args.exclude_path[1])

\* a call made while the target and its first suffix exist has returned a
\* path that is not on disk
C24_Witness ==
    /\ ret.op = "get_unique_archive_path"
    /\ Cardinality(files) = 2
    /\ Exists(files, TargetOf(ret.args.naming))
    /\ Exists(files, Suffixed(TargetOf(ret.args.naming), 1))
    /\ IsNone(ret.args.exclude_path)
    /\ ~Exists(files, ret.result.path)

\* a path is free for a call when it is not on disk or is the excluded path
FreeFor(p, exclude_path) ==
    ~Exists(files, p) \/ (~IsNone(exclude_path) /\ p = exclude_path[1])

\* C25: get_unique_archive_path returns the unsuffixed target when it is
\* free (or excluded), and otherwise the path with suffix (k) for the least
\* k >= 1 whose path is free (or excluded); so calls that each create the
\* returned file yield name.pdf, name(1).pdf, name(2).pdf in that order.
C25_LeastFreeSuffix ==
    ret.op = "get_unique_archive_path" =>
        LET target == TargetOf(ret.args.naming)
            x == ret.args.exclude_path
        IN IF FreeFor(target, x) THEN ret.result.path = target
           ELSE \E k \in 1..(Cardinality(files) + 1) :
                    /\ ret.result.path = Suffixed(target, k)
                    /\ FreeFor(Suffixed(target, k), x)
                    /\ \A j \in 1..(k - 1) : ~FreeFor(Suffixed(target, j), x)

\* name.pdf and name(1).pdf were created in that order and the next call
\* has returned name(2).pdf
C25_Witness ==
    /\ ret.op = "get_unique_archive_path"
    /\ IsNone(ret.args.exclude_path)
    /\ files = {[path |-> TargetOf(ret.args.naming), content |-> 1],
                [path |-> Suffixed(TargetOf(ret.args.naming), 1), content |-> 2]}
    /\ ret.result.path = Suffixed(TargetOf(ret.args.naming), 2)
    /\ PathName(ret.result.path) = <<"b", "_", "7", "(", "2", ")", ".", "p", "d", "f">>

\* every file ever created is still on disk, once
NoFileLost ==
    /\ {f.content : f \in files} = 1..Cardinality(files)
    /\ \A f, g \in files : f.path = g.path => f = g

\* what one rename_archive_for_document call does to the disk
RenameStep ==
    ret'.op = "rename_archive_for_document" =>
        IF IsNone(ret'.result.path) THEN files' = files
        ELSE LET src == Normalized(ret'.args.archive_path[1])
                 dst == Normalized(ret'.result.path[1])
             IN /\ ~Exists(files, dst)
                /\ \E f \in files :
                     /\ f.path = src
                     /\ files' = (files \ {f})
                                  \cup {[path |-> dst, content |-> f.content]}

\* C26: after any sequence of sequential rename_archive_for_document calls no
\* archive file is lost or overwritten: a call that returns a new path has
\* moved the file onto a path that did not exist before the call and left
\* every other file unchanged, and a call that returns None leaves the
\* filesystem unchanged.
C26_RenameLosesNothing == [][RenameStep]_vars /\ []NoFileLost

\* a rename whose target name was taken has moved the file to the first
\* free suffix, next to the file that holds the name
C26_Witness ==
    /\ ret.op = "rename_archive_for_document"
    /\ ~IsNone(ret.result.path)
    /\ ret.result.path[1] = Suffixed(TargetOf(ret.args.naming), 1)
    /\ Exists(files, TargetOf(ret.args.naming))
    /\ Exists(files, ret.result.path[1])
    /\ ~Exists(files, ret.args.archive_path[1])
    /\ Cardinality(files) = 2

\* the lines of a response that carry the label, in any letter case
LinesLabelled(lines, label) ==
    {i \in 1..Len(lines) :
        StartsWith(UpperText(Strip(lines[i], Whitespace)), <<label, ":">>)}

\* the response with every label written in upper case
WithUpperLabels(lines) ==
    [i \in 1..Len(lines) |->
        LET line == Strip(lines[i], Whitespace)
        IN IF \E label \in {"AUTHORS", "YEAR", "TYPE"} : i \in LinesLabelled(lines, label)
           THEN <<Respell(line[1], 3)>> \o Tail(line) ELSE line]

\* C27: for every response text, parse_llm_response returns a
\* publication_year that is None or an integer in [1900, 2100], a
\* document_type that is None when there is no TYPE line and otherwise a
\* member of DOCUMENT_TYPES, every unrecognised type being mapped to "other",
\* and an authors list with no entry equal to "unknown" in any letter case;
\* labels are matched case-insensitively.
C27_ParsedFieldsAreValid ==
    ret.op = "parse_llm_response" =>
        LET lines == ret.args.lines
            types == LinesLabelled(lines, "TYPE")
            last == Strip(lines[SetMax(types)], Whitespace)
            given == LowerText(Strip(SubSeq(last, 3, Len(last)), Whitespace))
        IN /\ \/ IsNone(ret.result.publication_year)
              \/ ret.result.publication_year[1] \in 1900..2100
           /\ IF types = {} THEN IsNone(ret.result.document_type)
              ELSE /\ ~IsNone(ret.result.document_type)
                   /\ ret.result.document_type[1] \in DOCUMENT_TYPES
                   /\ ret.result.document_type[1] =
                        IF Len(given) = 1 /\ given[1] \in DOCUMENT_TYPES
                        THEN given[1] ELSE "other"
           /\ \A i \in 1..Len(ret.result.authors) :
                LowerText(ret.result.authors[i]) # <<"unknown">>
           /\ ret.result = ParseLlmResponse(WithUpperLabels(lines))

\* a response with lower-case labels was parsed: the UNKNOWN author was
\* dropped and the other kept, the year taken, the unrecognised type mapped
C27_Witness ==
    /\ ret.op = "parse_llm_response"
    /\ ret.args.lines = << <<"authors", ":", " ", "UNKNOWN", ",", " ", "Doe">>,
                           <<" ", "year", ":", " ", "2", "0", "2", "3">>,
                           <<"TYPE", ":", " ", "novel">> >>
    /\ ret.result = [authors |-> << <<"Doe">> >>, publication_year |-> Some(2023),
                     document_type |-> Some("other")]

\* the table entries of one document, in table order
EntriesOf(rs, pdf_id) ==
    LET Mine(r) == r.pdf_id = pdf_id
    IN SelectSeq(rs, Mine)

\* an entry without its three metadata columns
Core(r) ==
    [k \in DOMAIN r \ {"publication_year", "authors", "document_type", "nulls"} |->
        r[k]]

\* C28: when update_document_metadata returns true, it changes nothing
\* except the three metadata columns of the rows with pdf_id = doc_id: the
\* document keeps exactly the same rows, as many as it had, however many
\* chunks it has, and every row of every other document is unchanged.
C28_UpdateChangesOnlyMetadataColumns ==
    [][ (ret'.op = "update_document_metadata" /\ ret'.result.ok) =>
          LET before == EntriesOf(rows, ret'.args.pdf_id)
              after == EntriesOf(rows', ret'.args.pdf_id)
          IN /\ \A d \in PdfIds \ {ret'.args.pdf_id} :
                  EntriesOf(rows', d) = EntriesOf(rows, d)
             /\ Len(rows') = Len(rows)
             /\ Len(after) = Len(before)
             /\ \A i \in 1..Len(before) : Core(after[i]) = Core(before[i]) ]_vars

\* C29: update_document_metadata has full-rewrite semantics: any of
\* publication_year, authors, document_type the caller leaves unspecified is
\* overwritten on every chunk of the document with its sentinel (0, empty
\* list, ""), not preserved from the previous value.
C29_UnspecifiedFieldsBecomeSentinels ==
    UpdateReturnedTrue =>
        \A i \in RowsOf(ret.args.pdf_id) :
            /\ IsNone(ret.args.u.publication_year) => rows[i].publication_year = 0
            /\ IsNone(ret.args.u.authors) => rows[i].authors = <<>>
            /\ IsNone(ret.args.u.document_type) => rows[i].document_type = ""

\* a document ingested as a 2023 paper by Smith was updated with only the
\* year given: its rows hold no authors and no type
C29_Witness ==
    /\ UpdateReturnedTrue
    /\ ret.args.u = [publication_year |-> Some(2024), authors |-> None,
                     document_type |-> None]
    /\ \E i \in RowsOf(ret.args.pdf_id) :
         /\ JsonLoads(rows[i].metadata).authors = Some(<<"Smith">>)
         /\ JsonLoads(rows[i].metadata).document_type = Some("paper")
         /\ rows[i].publication_year = 2024
         /\ rows[i].authors = <<>>
         /\ rows[i].document_type = ""

\* the table entries of every other document, in table order
EntriesBeside(rs, pdf_id) ==
    LET Other(r) == r.pdf_id # pdf_id
    IN SelectSeq(rs, Other)

\* C30: if update_document_metadata fails after its delete step succeeded
\* and before its reinsert completed, it returns false, the document is
\* left with zero chunk rows, and the rows of every other document are
\* unchanged.
C30_FailedReinsertLeavesNoRows ==
    [][ (ret'.op = "update_document_metadata" /\ "add" \in ret'.failed) =>
          /\ ~ret'.result.ok
          /\ EntriesOf(rows, ret'.args.pdf_id) # <<>>
          /\ EntriesOf(rows', ret'.args.pdf_id) = <<>>
          /\ EntriesBeside(rows', ret'.args.pdf_id)
               = EntriesBeside(rows, ret'.args.pdf_id) ]_vars

\* the reinsert of an update failed on a table that holds another document:
\* the updated document has no rows left, the other one has
C30_Witness ==
    /\ ret.op = "update_document_metadata"
    /\ ret.failed = {"add"}
    /\ ~ret.result.ok
    /\ RowsOf(ret.args.pdf_id) = {}
    /\ \E d \in PdfIds \ {ret.args.pdf_id} : RowsOf(d) # {}

\* C21: for every returned row, score lies in [0,1] and distance is >= 0,
\* and whenever the store supplied only one of score and distance the other
\* is derived so that score = clamp(1 - distance, 0, 1) holds for the
\* returned pair.
C21_ScoresNormalised ==
    (ret.op = "search" /\ "scores" \in DOMAIN ret.result) =>
        \A i \in 1..Len(ret.result.scores) :
            /\ 0 <= ret.result.scores[i] /\ ret.result.scores[i] <= One
            /\ ret.result.distances[i] >= 0
            /\ Cardinality(ret.args.supplies) = 1 =>
                 ret.result.scores[i] =
                     Max(0, Min(One, One - ret.result.distances[i]))
            /\ ret.args.supplies = {"score"} =>
                 ret.result.distances[i] = Max(0, One - ret.result.scores[i])

\* a search over a store that supplies distances only has returned two
\* rows, one of them with a score strictly between 0 and 1
C21_Witness ==
    /\ ret.op = "search"
    /\ ret.args.supplies = {"distance"}
    /\ "scores" \in DOMAIN ret.result
    /\ Len(ret.result.scores) >= 2
    /\ \E i \in 1..Len(ret.result.scores) :
         /\ 0 < ret.result.scores[i] /\ ret.result.scores[i] < One
         /\ ret.result.distances[i] = One - ret.result.scores[i]

\* the table is uninitialized for the handle or holds no row
NothingStored(h) == table[h] = "none" \/ rows = <<>>

\* C11: search returns the canonical empty shape {documents: [[]],
\* metadatas: [[]], distances: [[]]} whenever the table is uninitialized, the
\* table has zero rows, or n_results <= 0, whatever the table holds.
C11_EmptyShapeWhenNothingAsked ==
    (ret.op = "search" /\ (NothingStored(ret.h) \/ ret.args.n_results <= 0))
        => ret.result = EmptyShape


(***************************************************************************)
(* Properties of reconciliation (specification SpecRebuild).               *)
(***************************************************************************)
\* a document the scan selects and that yields at least one chunk
Eligible(d) ==
    /\ db[d].processed
    /\ ~db[d].blacklisted
    /\ MarkdownIsCurrent(db[d])
    /\ SumSeq(db[d].pages) > 0

\* the rows reconciliation wrote for document d
RebuiltRowsOf(d) == {i \in 1..Len(rows) : rows[i].pdf_id = d /\ rows[i].text[1] >= 1}

Failing == ret.args.encode \cup ret.args.insert

\* C15: during reconciliation one document's embedding failure or insertion
\* failure does not abort the pass: every eligible document that comes after
\* the failing one in the scan is still split, embedded and inserted.
C15_FailureDoesNotAbortThePass ==
    (ret.op = "rebuild_from_markdown" /\ ret.result.found = 0)
        => \A d1 \in PdfIds, d2 \in PdfIds :
             (d1 < d2 /\ Eligible(d1) /\ Eligible(d2)
              /\ d1 \in Failing /\ d2 \notin Failing)
                 => RebuiltRowsOf(d2) # {}

\* C16: no row reconciliation inserted has the pdf_id of an unprocessed,
\* blacklisted or stale document.
C16_OnlyEligibleDocumentsRebuilt ==
    \A i \in 1..Len(rows) :
        rows[i].text[1] >= 1 =>
            /\ db[rows[i].pdf_id].processed
            /\ ~db[rows[i].pdf_id].blacklisted
            /\ MarkdownIsCurrent(db[rows[i].pdf_id])

\* a pass over a store that holds an eligible document and one that is
\* unprocessed, blacklisted or stale has inserted rows
C16_Witness ==
    /\ ret.op = "rebuild_from_markdown"
    /\ ret.result.rebuilt_any
    /\ \E d \in PdfIds : RebuiltRowsOf(d) # {}
    /\ \E d \in PdfIds :
         /\ ~db[d].processed \/ db[d].blacklisted \/ ~MarkdownIsCurrent(db[d])
         /\ SumSeq(db[d].pages) > 0


(***************************************************************************)
(* Properties of provider loading (specification SpecLoad).                *)
(***************************************************************************)
\* C20: loading the embedding provider fails fatally only once every tier
\* has failed: for every device preference, the default "cpu" included, and
\* every kind of failure of the first attempt, the device-agnostic retry is
\* attempted before an exception is raised.
C20_FatalOnlyAfterEveryTier ==
    (ret.op = "_load_sentence_transformer" /\ ret.result.raised # "none")
        => "agnostic" \in Range(ret.result.attempts)

(***************************************************************************)
(* Properties of chunk loss and reconciliation (specification SpecLoss).   *)
(***************************************************************************)
\* the last call was an update_document_metadata whose reinsert failed
\* after its delete
LostByUpdate == ret.op = "update_document_metadata" /\ "add" \in ret.failed

\* C31: for an eligible document whose chunks were lost by a failure between
\* the delete and the reinsert of update_document_metadata, the
\* reconciliation run that follows restores chunk rows of that document,
\* also when the index still holds rows of other documents.
C31_LostChunksAreRederived ==
    [][ (LostByUpdate /\ Eligible(ret.args.pdf_id)
         /\ ret'.op = "rebuild_from_markdown")
        => \E i \in 1..Len(rows') : rows'[i].pdf_id = ret.args.pdf_id ]_vars

(***************************************************************************)
(* Properties of synchronisation beside ingestion (specification SpecSync).*)
(***************************************************************************)
\* both calls have returned true
BothReturnedTrue ==
    \A p \in Writers : proc[p].pc = "idle" /\ proc[p].ok = "true"

\* C32: under every interleaving of update_document_metadata(doc_id, ...)
\* with a concurrent add_documents that inserts chunks of the same document,
\* no chunk whose add_documents call returned true is missing from the index
\* once both operations have returned true.
C32_NoChunkLostBesideUpdate ==
    BothReturnedTrue =>
        \A i \in 1..Len(proc["live"].records) :
            proc["live"].records[i].pdf_id = ask.pdf_id =>
                \E j \in 1..Len(rows) : rows[j].id = proc["live"].records[i].id

(***************************************************************************)
(* Properties of deletion (specification SpecDelete).                      *)
(***************************************************************************)
\* the rows a delete call is asked to remove: those matching the filter
\* when one is given, otherwise those with one of the ids
Condemned(r, args) ==
    IF ~FilterIsEmpty(args.filter) THEN Matches(r, args.filter)
    ELSE r.id \in args.ids

\* C33: whenever delete(filter) or delete(ids) returns true and no writer
\* runs afterwards, no persisted row matches the filter (resp. has one of
\* the ids), also when the persisted table was created by another writer
\* after this backend handle was constructed.
C33_NothingSurvivesADelete ==
    (ret.op = "delete" /\ ret.result.ok) =>
        \A i \in 1..Len(rows) : ~Condemned(rows[i], ret.args)

\* C34: delete(filter) removes exactly the rows for which every column
\* named in the filter equals the given value, delete(ids) removes exactly
\* the rows whose id is in the given set, and all other rows are left
\* unchanged; when both a non-empty filter and ids are passed only the
\* filter is applied.
C34_DeleteRemovesExactlyTheMatches ==
    [][ (ret'.op = "delete" /\ ret'.result.ok) =>
          LET Spared(r) == ~Condemned(r, ret'.args)
          IN rows' = SelectSeq(rows, Spared) ]_vars

(***************************************************************************)
(* Properties of a complete reconciliation run (specification SpecCold).   *)
(***************************************************************************)
\* the pdf_ids present in a table
PdfIdsIn(rs) == {rs[i].pdf_id : i \in 1..Len(rs)}

\* C35: after a reconciliation run on an empty index completes without any
\* embedding or insertion failure, the set of pdf_ids present in the index
\* equals the set of eligible documents that have at least one
\* non-whitespace page, and every inserted row's publication_year, authors
\* and document_type equal the canonical document's values, with sentinels
\* for unset ones.
C35_RebuildMirrorsCanonicalStore ==
    [][ ( /\ ret'.op = "rebuild_from_markdown"
          /\ rows = <<>>
          /\ ret'.args = NoFailures
          /\ ~ret'.result.raised )
        => /\ PdfIdsIn(rows') = {d \in PdfIds : Eligible(d)}
           /\ \A i \in 1..Len(rows') :
                LET doc == db[rows'[i].pdf_id]
                IN /\ rows'[i].publication_year = OptOr(doc.publication_year, 0)
                   /\ rows'[i].authors = OptOr(doc.authors, <<>>)
                   /\ rows'[i].document_type = OptOr(doc.document_type, "") ]_vars

\* a run without failures over a store holding a document without metadata
\* and a document whose only page is blank: the first has rows carrying the
\* sentinels, the second has none
C35_Witness ==
    /\ ret.op = "rebuild_from_markdown"
    /\ ret.args = NoFailures
    /\ ret.result.found = 0
    /\ ret.result.rebuilt_any
    /\ db = [d \in PdfIds |-> IF d = 1 THEN BareDoc ELSE BlankDoc]
    /\ PdfIdsIn(rows) = {1}
    /\ \A i \in 1..Len(rows) :
         /\ rows[i].text[1] >= 1
         /\ rows[i].publication_year = 0
         /\ rows[i].authors = <<>>
         /\ rows[i].document_type = ""

(***************************************************************************)
(* The metadata dictionary through add_documents and search.               *)
(***************************************************************************)
\* every row of the table, as search returns them for a query
AllHits == SearchOf(Store, ret.h, DefaultSearch.query, Len(rows), NoFilter, 0,
                    {"distance"}, {}).result

\* the dictionaries that reached a record: zip pairs chunk i with dictionary i
Supplied == IF IsNone(ret.args.metadatas) THEN <<>> ELSE ret.args.metadatas[1]

\* the dictionary holds values that JSON has a form of its own for
JsonValued(meta) == "extra" \in DOMAIN meta => meta.extra.t # "tuple"

\* search returns, for chunk i of the call, a hit carrying dictionary i
RoundTrips(i) ==
    /\ \E j \in 1..Len(AllHits.documents) : AllHits.documents[j] = ret.args.chunks[i]
    /\ \A j \in 1..Len(AllHits.documents) :
         AllHits.documents[j] = ret.args.chunks[i] => AllHits.metadatas[j] = Supplied[i]

\* C36, as stated: after add_documents has stored chunks with their
\* dictionaries, search returns for each of these rows a dictionary equal to
\* the one the caller supplied, keys that are no schema column included.
C36_MetadataRoundTrips ==
    (ret.op = "add_documents" /\ ret.result.ok)
        => \A i \in 1..Min(Len(ret.args.chunks), Len(Supplied)) : RoundTrips(i)

\* C36, amended: the dictionary returned equals the one supplied when the
\* supplied values are JSON values (strings, numbers, lists); a tuple comes
\* back as a list.
C36_JsonValuedMetadataRoundTrips ==
    (ret.op = "add_documents" /\ ret.result.ok)
        => \A i \in 1..Min(Len(ret.args.chunks), Len(Supplied)) :
              /\ JsonValued(Supplied[i]) => RoundTrips(i)
              /\ ~JsonValued(Supplied[i]) =>
                    \E j \in 1..Len(AllHits.documents) :
                       /\ AllHits.documents[j] = ret.args.chunks[i]
                       /\ AllHits.metadatas[j] =
                            [Supplied[i] EXCEPT !.extra.t = "list"]

\* a chunk stored with a list under a key that is no schema column, onto a
\* table that held another chunk already
C36_Witness ==
    /\ ret.op = "add_documents"
    /\ ret.result.ok
    /\ Len(ret.args.chunks) = 1
    /\ Len(Supplied) = 1
    /\ "extra" \in DOMAIN Supplied[1]
    /\ Supplied[1].extra = [t |-> "list", v |-> <<"a", "b">>]
    /\ Len(rows) = 3
    /\ rows[1].text # ret.args.chunks[1]
    /\ RoundTrips(1)

(***************************************************************************)
(* One row per chunk.                                                      *)
(***************************************************************************)
\* C37: when add_documents returns true, every chunk passed has a row,
\* whatever the metadatas argument (None, a list shorter than the chunks).
C37_EveryChunkGetsARow ==
    (ret.op = "add_documents" /\ ret.result.ok /\ "chunks" \in DOMAIN ret.args)
        => \A i \in 1..Len(ret.args.chunks) :
              \E k \in 1..Len(rows) : rows[k].text = ret.args.chunks[i]

(***************************************************************************)
(* The delete predicate denotes the filter it was built from.              *)
(***************************************************************************)
QuotesIn(t) == Cardinality({i \in 1..Len(t) : t[i] = "'"})

\* C38: a string value is written between quotes with its quotes doubled,
\* a number or a boolean bare; read back, every literal of the predicate is
\* the value it was built from, and no other filter builds the same
\* predicate.
C38_PredicateDenotesTheFilter ==
    (ret.op = "_delete_where_expr" /\ ret.args.filter # <<>>)
        => LET f == ret.args.filter
               expr == ret.result.expr[1]
           IN /\ QuotesIn(expr) =
                    SumSeq([i \in 1..Len(f) |->
                              IF f[i].value.t = "str"
                              THEN 2 + 2 * QuotesIn(f[i].value.s) ELSE 0])
              /\ ReadExpr(expr) = [ok |-> TRUE, items |-> f]
              /\ \A g \in FilterItems : g # f => DeleteWhereExpr(g) # Some(expr)

\* the predicate of a filter whose string value is the break-out text,
\* followed by a number
C38_Witness ==
    /\ ret.op = "_delete_where_expr"
    /\ Len(ret.args.filter) = 2
    /\ ret.args.filter[1].value = StrValue(BreakOut)
    /\ ret.args.filter[2].value = IntValue(7)
    /\ ReadExpr(ret.result.expr[1]).items = ret.args.filter

(***************************************************************************)
(* The suffix-counter loop of get_unique_archive_path is bounded.          *)
(***************************************************************************)
\* the target path of the call that returned
TargetPath ==
    InArchive(BuildStructuredArchiveFilename(ret.args.naming.first_author,
                  ret.args.naming.year, ret.args.naming.title,
                  ret.args.naming.filename))

\* the files on disk at a numbered variant of the target name
NumberedVariants ==
    {f \in files : \E k \in 1..(MaxFiles + 1) :
                      f.path = Normalized(Suffixed(TargetPath, k))}

\* C39: the path returned is the target or the target with a counter that
\* the loop reached in at most (colliding files + 1) rounds; the colliding
\* files counted are those at a numbered variant of the target, and the
\* file at the target itself makes the bound of the claim one larger.
C39_CounterLoopIsBounded ==
    ret.op = "get_unique_archive_path"
        => \/ ret.result.path = TargetPath
           \/ \E k \in 1..(Cardinality(NumberedVariants) + 1) :
                 ret.result.path = Suffixed(TargetPath, k)

\* the target and its first variant are on disk: the loop returns in its
\* second round
C39_Witness ==
    /\ ret.op = "get_unique_archive_path"
    /\ Exists(files, TargetPath)
    /\ Cardinality(NumberedVariants) = 1
    /\ ~IsExcluded(Suffixed(TargetPath, 1), ret.args.exclude_path)
    /\ ret.result.path = Suffixed(TargetPath, 2)

====
